---- MODULE Spec2Model ----
(***************************************************************************)
(* Pixiv-XP-Pusher: the MAB strategy scheduler (fetcher.py), the content   *)
(* filter (filter.py), the push cycle and the chain reaction of            *)
(* main.py, with the storage rows of database.py they read and write.      *)
(*                                                                         *)
(* The specifications share the variables below; each one moves its own   *)
(* groups of variables and leaves the others at their initial values:      *)
(*   SpecAlloc     ContentFetcher.select_strategies                        *)
(*   SpecCycle     main_task under its triggers (cron, --now, run_task)    *)
(*   SpecChain     on_feedback and push_related_task                       *)
(*   SpecFilter    ContentFilter.filter                                    *)
(*   SpecScore     calculate_match_score on the stored profile             *)
(*   SpecDiscover  ContentFetcher.discover                                 *)
(*   SpecCombo     ContentFetcher.discover on a long pair table            *)
(*   SpecFetch     ContentFetcher.fetch_content, then filter               *)
(*   SpecStats     the strategy_stats table under deliveries and likes     *)
(*   SpecBlacklist add_to_blacklist, check_illust and filter               *)
(*   SpecCascade   cascades beside each other and beside main_task         *)
(*   SpecAdmits    filter and check_illust under every maturity mode       *)
(*   SpecSelect    push_related_task choosing the works to push            *)
(*   SpecAttribution deliveries, likes and cascades on strategy_stats     *)
(*   SpecThreshold ContentFetcher._get_dynamic_threshold, concurrent calls *)
(*   SpecRecord    main_task's delivery and push history, beside cascades  *)
(*   SpecRetry     _retry_on_flood                                         *)
(*   SpecMap       TelegramNotifier's message map under its sends          *)
(***************************************************************************)
EXTENDS Integers, Sequences, FiniteSets, TLC

VARIABLES
    \* ---- select_strategies (fetcher.py) ----
    total_limit,      \* argument of select_strategies
    mab_limits,       \* self.mab_limits, quotas in tenths: [min_quota, max_quota]
    strategy_stats,   \* table strategy_stats: strategy -> <<success_count, total_count>>
    scores,           \* the Beta samples, on a grid 1..ScoreGrid
    targets,          \* int(total_limit * r) per strategy, as the floats gave it
    final_quotas,     \* the returned map
    remaining,        \* the unassigned pool when the function returns
    alloc_pc,         \* "ready" | "done" | "raised"
    \* ---- main_task (main.py) ----
    task_lock,        \* _task_lock.locked()
    task_pc,          \* per invocation of main_task: where it stands
    task_trigger,     \* per invocation: what started it
    \* ---- on_feedback / push_related_task (main.py), rows of database.py ----
    push_history,     \* table push_history: illust_id -> source, or NoSource
    illust_cache,     \* table illust_cache: illust_id -> row, or NoRow
    cascades,         \* the push_related_task instances created and not yet run
    origin,           \* per illust: the strategy whose fetch produced the
                      \* delivered work, "related" for a cascade, or NoSource
    real_depth,       \* per illust: -1 never delivered, 0 delivered by the cycle,
                      \* n >= 1 delivered by the n-th cascade of a lineage
    \* ---- ContentFilter (filter.py) ----
    filter_config,    \* the ContentFilter's attributes
    illusts,          \* the batch handed to filter
    xp_profile,       \* the profile handed to filter
    final_result,     \* what filter returned
    second_result,    \* what filter returned when handed final_result
    filter_pc,        \* "idle" before the call, "done" after it
    check_result,     \* the last check_illust call: the work and the answer
    \* ---- calculate_match_score on the stored profile (filter.py, database.py) ----
    score_tags,       \* the tags of the work being scored
    match_score,      \* the value calculate_match_score returned
    adjust_count,     \* adjust_tag_weight calls so far
    score_pc,         \* "idle" before the call, "done" after it
    \* ---- ContentFetcher.discover (fetcher.py) ----
    top_pairs,        \* what get_top_tag_pairs returned: a list of <<t1, t2>>
    expand,           \* expand_search_query, as a table tag -> query
    xp_tags,          \* the weighted tags handed to discover (tags only)
    discover_limit,   \* the limit handed to discover
    combo_tasks,      \* the _search_pair tasks created, as <<t1, t2>>
    single_tasks,     \* the _search_single tasks created, by tag
    discover_all,     \* all_illusts of discover
    discover_result,  \* what discover returned
    discover_failed,  \* some search task of discover ended with an exception
    discover_pc,      \* "idle", "combo", "fallback", "done", "raised"
    \* ---- ContentFetcher.fetch_content (fetcher.py) ----
    fetch_quotas,     \* what select_strategies returned to fetch_content
    ranking_enabled,  \* self.ranking_enabled
    fetch_tasks,      \* the awaitables handed to gather, in order
    api_failed,       \* the content-API calls that raised, by name
    fetch_result,     \* what fetch_content returned
    fetch_error,      \* the exception fetch_content raised, or "none"
    fetch_pc,         \* "idle", "gather", "returned", "raised"
    \* ---- ContentFetcher._get_dynamic_threshold (fetcher.py) ----
    search_max_bookmarks_cache, \* self._search_max_bookmarks_cache, by tag
    threshold_calls,  \* the running _get_dynamic_threshold coroutines
    lookups,          \* the top-1 searches issued to the client, by tag
    \* ---- push_related_task (main.py): the choice of the works to push ----
    related_seed,     \* seed_illust.id
    related_works,    \* what get_related_illusts returned
    blocked_artist_ids, \* profiler._blocked_artist_ids
    artist_scores,    \* table artist_profile: artist -> score
    push_limit,       \* config feedback.related_push_limit
    related_top,      \* the works handed to push_illusts
    select_pc,        \* "idle", "done"
    \* ---- main_task's delivery (main.py:549-574) ----
    filtered_map,     \* the filtered works by id ({} outside a delivery)
    all_sent_ids,     \* the ids the notifiers reported as sent
    notifiers_left,   \* notifiers whose send has not been awaited yet
    send_pc,          \* "idle", "sending", "done"
    \* ---- notifier/telegram.py: _retry_on_flood and the message map ----
    max_retries,      \* _retry_on_flood's parameter
    attempt,          \* the loop variable of _retry_on_flood
    invocations,      \* the outcomes of the calls of coro_func so far
    retry_result,     \* how _retry_on_flood ended: kind "pending", "returned", "raised"
    chat_ids,         \* TelegramNotifier.chat_ids
    next_message_id,  \* the message_id of the next message the map records
    message_illust_map \* the keys of _message_illust_map in insertion order

allocVars == <<total_limit, mab_limits, strategy_stats, scores, targets,
               final_quotas, remaining, alloc_pc>>

cycleVars == <<task_lock, task_pc, task_trigger>>

chainVars == <<push_history, illust_cache, cascades, origin, real_depth>>

filterVars == <<filter_config, illusts, xp_profile, final_result, second_result,
                filter_pc, check_result>>

scoreVars == <<score_tags, match_score, adjust_count, score_pc>>

discoverVars == <<top_pairs, expand, xp_tags, discover_limit, combo_tasks,
                  single_tasks, discover_all, discover_result, discover_failed,
                  discover_pc>>

fetchVars == <<fetch_quotas, ranking_enabled, fetch_tasks, api_failed, fetch_result,
               fetch_error, fetch_pc>>

thresholdVars == <<search_max_bookmarks_cache, threshold_calls, lookups>>

selectVars == <<related_seed, related_works, blocked_artist_ids, artist_scores,
                push_limit, related_top, select_pc>>

notifyVars == <<filtered_map, all_sent_ids, notifiers_left, send_pc>>

telegramVars == <<max_retries, attempt, invocations, retry_result, chat_ids,
                  next_message_id, message_illust_map>>

vars == <<allocVars, cycleVars, chainVars, filterVars, scoreVars, discoverVars,
          fetchVars, thresholdVars, selectVars, notifyVars, telegramVars>>

(***************************************************************************)
(* Bounds of the model.                                                    *)
(***************************************************************************)
MaxTotal == 10
ScoreGrid == 4
MaxCount == 1
MaxTasks == 3
MaxCascades == 1
MaxBatch == 3
MaxTags == 2
MaxAdjust == 2
MaxPairs == 2
MaxCalls == 2
MaxEnumerated == 3
MaxAdmitBatch == 2
MaxRelated == 3

(***************************************************************************)
(* Small helpers.                                                          *)
(***************************************************************************)
Min2(a, b) == IF a <= b THEN a ELSE b
Max2(a, b) == IF a >= b THEN a ELSE b

RECURSIVE SumSeq(_)
SumSeq(s) == IF s = <<>> THEN 0 ELSE Head(s) + SumSeq(Tail(s))

Range(s) == {s[i] : i \in DOMAIN s}


(***************************************************************************)
(* main_task and its triggers (main.py)                                    *)
(***************************************************************************)
Tasks == 1 .. MaxTasks

\* The stages of one discovery-to-delivery cycle, main.py:467-601:
\* build_profile (471), the ContentFetcher(...) call (504-515), fetch_content
\* (522), filter (544), notifier.send (557), mark_pushed/update_strategy_stats
\* (570-574).
CycleStages == <<"build_profile", "new_fetcher", "fetch_content", "filter", "send",
                 "mark_pushed">>

\* The parameters of ContentFetcher.__init__ (fetcher.py:21-29)
ContentFetcherParams == {"client", "bookmark_threshold", "date_range_days",
                         "subscribed_artists", "discovery_rate", "ranking_config",
                         "mab_limits"}

\* The keywords main_task calls ContentFetcher with (main.py:504-515)
MainTaskFetcherCall == {"client", "sync_client", "bookmark_threshold", "date_range_days",
                        "subscribed_artists", "discovery_rate", "ranking_config",
                        "dynamic_threshold_config", "search_limit"}

\* A call with a keyword the signature does not have raises TypeError
CallRaises(keywords, params) == ~(keywords \subseteq params)

\* cron job (main.py:787), --now (main.py:739), run_task bot action (main.py:305)
Triggers == {"cron", "now", "run_task"}

CycleIdle ==
    /\ task_lock = FALSE
    /\ task_pc = [t \in Tasks |-> "idle"]
    /\ task_trigger = [t \in Tasks |-> "none"]

StageIndex(stage) == CHOOSE i \in DOMAIN CycleStages : CycleStages[i] = stage

\* A trigger creates an invocation of main_task.  --now fires once, at start
\* (main.py:733-739); the scheduler runs one instance of a cron job at a time;
\* run_task is created on each bot command (main.py:299-305).
Trigger(t, kind) ==
    /\ task_pc[t] = "idle"
    /\ kind = "cron" => \A u \in Tasks : task_trigger[u] # "cron"
    /\ kind = "now" => /\ \A u \in Tasks : task_trigger[u] = "none"
    /\ task_pc' = [task_pc EXCEPT ![t] = "entry"]
    /\ task_trigger' = [task_trigger EXCEPT ![t] = kind]
    /\ UNCHANGED task_lock

\* main.py:461-465.  "async with _task_lock" waits while the lock is held;
\* its body is the one logger.info line, so the lock is acquired and released
\* without an await in between and is free again when the try block of
\* line 467 starts.
EnterCycle(t) ==
    /\ task_pc[t] = "entry"
    /\ ~task_lock
    /\ task_lock' = FALSE
    /\ task_pc' = [task_pc EXCEPT ![t] = CycleStages[1]]
    /\ UNCHANGED task_trigger

\* One awaited stage completes and the next one starts; after the last one
\* main_task returns (main.py:605).
AdvanceCycle(t) ==
    /\ task_pc[t] \in Range(CycleStages)
    /\ task_pc[t] = "new_fetcher" => ~CallRaises(MainTaskFetcherCall, ContentFetcherParams)
    /\ LET i == StageIndex(task_pc[t])
       IN  IF i < Len(CycleStages)
           THEN /\ task_pc' = [task_pc EXCEPT ![t] = CycleStages[i + 1]]
                /\ UNCHANGED task_trigger
           ELSE /\ task_pc' = [task_pc EXCEPT ![t] = "idle"]
                /\ task_trigger' = [task_trigger EXCEPT ![t] = "none"]
    /\ UNCHANGED task_lock

\* A stage raises; main.py:602-603 logs it and main_task returns.
FailCycle(t) ==
    /\ task_pc[t] \in Range(CycleStages)
    /\ task_pc' = [task_pc EXCEPT ![t] = "idle"]
    /\ task_trigger' = [task_trigger EXCEPT ![t] = "none"]
    /\ UNCHANGED task_lock


(***************************************************************************)
(* ContentFetcher.select_strategies                                        *)
(***************************************************************************)
\* fetcher.py:359, in declaration order (the order of both loops over it)
strategies == <<"xp_search", "subscription", "ranking">>

\* The constructor default of mab_limits (fetcher.py:36), the fallbacks of
\* the two .get calls (fetcher.py:373-374) and two other configurations a
\* caller can pass: a narrow ceiling and floors that exceed the budget.
DefaultLimits == [min_quota |-> 2, max_quota |-> 6]
FallbackLimits == [min_quota |-> 1, max_quota |-> 8]
LimitChoices == {DefaultLimits, FallbackLimits,
                 [min_quota |-> 1, max_quota |-> 4],
                 [min_quota |-> 4, max_quota |-> 6]}

\* The value of getattr(illust, 'source', 'unknown') for a candidate that
\* carries no source attribute (main.py:569)
UnknownSource == "unknown"

\* The keys update_strategy_stats is called with (main.py:218, 574)
StatKeys == Range(strategies) \cup {UnknownSource}

\* Rows of strategy_stats that update_strategy_stats can have produced: no
\* history, and MaxCount deliveries that were all liked (a delivery adds one
\* to total_count, a like one to both counts).
StatChoices == {<<0, 0>>, <<MaxCount, 2 * MaxCount>>}

\* random.betavariate(alpha, beta): any point of (0,1), here k/(ScoreGrid+1)
\* for k in 1..ScoreGrid; it raises ValueError unless alpha > 0 and beta > 0.
betavariate(alpha, beta) ==
    IF alpha > 0 /\ beta > 0 THEN 1 .. ScoreGrid ELSE {}

\* The samples select_strategies can draw for one strategy (fetcher.py:363-367)
SamplesOf(stats, s) ==
    LET succ == stats[s][1]
        f    == stats[s][2] - stats[s][1]
    IN  betavariate(succ + 2, f + 2)

\* int(total_limit * q) for a quota q given in tenths.  For q in
\* {0.1, 0.2, 0.4, 0.6, 0.8} and total_limit < 100000 the float product
\* truncates to the exact floor.
QuotaCount(T, tenths) == (T * tenths) \div 10

\* int(total_limit * r) with r = scores[s] / total_score (fetcher.py:369-370,
\* 396).  When the exact product is a positive integer the float product can
\* land just below it and truncate to one less; low names the strategies for
\* which it does.
Target(T, sc, low, s) ==
    LET total_score == SumSeq([i \in DOMAIN strategies |-> sc[strategies[i]]])
        exact == (T * sc[s]) \div total_score
    IN  IF s \in low /\ (T * sc[s]) % total_score = 0 /\ exact > 0
        THEN exact - 1 ELSE exact

\* Step 1 (fetcher.py:379-383): the minimum floor to every strategy.
AllocFloors(T, lim) ==
    LET min_count == QuotaCount(T, lim.min_quota)
    IN  [final_quotas |-> [s \in Range(strategies) |-> min_count],
         remaining    |-> T - Len(strategies) * min_count]

\* Step 2 without the ceiling: actual_add = min(needed, remaining).
RECURSIVE AllocProportionalUncapped(_, _, _, _, _)
AllocProportionalUncapped(st, i, T, lim, tg) ==
    IF i > Len(strategies) \/ st.remaining <= 0 THEN st
    ELSE LET s          == strategies[i]
             needed     == Max2(0, tg[s] - st.final_quotas[s])
             actual_add == Min2(needed, st.remaining)
         IN  AllocProportionalUncapped(
                 [final_quotas |-> [st.final_quotas EXCEPT ![s] = @ + actual_add],
                  remaining    |-> st.remaining - actual_add],
                 i + 1, T, lim, tg)

\* Step 2 (fetcher.py:386-404): one pass in declaration order, each strategy
\* raised towards its proportional target, capped by max and by the pool.
RECURSIVE AllocProportional(_, _, _, _, _)
AllocProportional(st, i, T, lim, tg) ==
    IF i > Len(strategies) \/ st.remaining <= 0 THEN st
    ELSE LET s           == strategies[i]
             current     == st.final_quotas[s]
             max_allowed == QuotaCount(T, lim.max_quota)
             target      == tg[s]
             can_add     == Max2(0, max_allowed - current)
             needed      == Max2(0, target - current)
             actual_add  == Min2(Min2(needed, can_add), st.remaining)
         IN  AllocProportional(
                 [final_quotas |-> [st.final_quotas EXCEPT ![s] = @ + actual_add],
                  remaining    |-> st.remaining - actual_add],
                 i + 1, T, lim, tg)

\* Step 3 left out: the pool that rounding left over is never handed out.
AllocRemainderSkipped(st, i, T, lim) == st

\* Step 3 (fetcher.py:407-416): one pass in declaration order, one unit to
\* every strategy still under its cap.
RECURSIVE AllocRemainder(_, _, _, _)
AllocRemainder(st, i, T, lim) ==
    IF i > Len(strategies) \/ st.remaining <= 0 THEN st
    ELSE LET s           == strategies[i]
             max_allowed == QuotaCount(T, lim.max_quota)
         IN  IF st.final_quotas[s] < max_allowed
             THEN AllocRemainder(
                      [final_quotas |-> [st.final_quotas EXCEPT ![s] = @ + 1],
                       remaining    |-> st.remaining - 1],
                      i + 1, T, lim)
             ELSE AllocRemainder(st, i + 1, T, lim)

\* fetcher.py:372-419 for given proportional targets
select_strategies(T, lim, tg) ==
    LET s1 == AllocFloors(T, lim)
        s2 == IF s1.remaining > 0
              THEN AllocProportional(s1, 1, T, lim, tg) ELSE s1
        s3 == IF s2.remaining > 0 THEN AllocRemainder(s2, 1, T, lim) ELSE s2
    IN  s3

NoQuotas == [s \in {} |-> 0]
NoScores == [s \in Range(strategies) |-> 0]

\* The scheduler's variables while no call of select_strategies is modelled
AllocIdle ==
    /\ total_limit = 0
    /\ mab_limits = DefaultLimits
    /\ strategy_stats = [s \in StatKeys |-> <<0, 0>>]
    /\ scores = NoScores
    /\ targets = NoScores
    /\ final_quotas = NoQuotas
    /\ remaining = 0
    /\ alloc_pc = "ready"

\* One call of select_strategies (fetcher.py:350-419)
SelectStrategies ==
    /\ alloc_pc = "ready"
    /\ IF \E s \in Range(strategies) : SamplesOf(strategy_stats, s) = {}
       THEN /\ alloc_pc' = "raised"
            /\ UNCHANGED <<scores, targets, final_quotas, remaining>>
       ELSE \E sc \in [Range(strategies) -> 1 .. ScoreGrid] :
            \E low \in SUBSET Range(strategies) :
              /\ \A s \in Range(strategies) : sc[s] \in SamplesOf(strategy_stats, s)
              /\ LET tg  == [s \in Range(strategies) |->
                                Target(total_limit, sc, low, s)]
                     res == select_strategies(total_limit, mab_limits, tg)
                 IN  /\ scores' = sc
                     /\ targets' = tg
                     /\ final_quotas' = res.final_quotas
                     /\ remaining' = res.remaining
                     /\ alloc_pc' = "done"
    /\ UNCHANGED <<total_limit, mab_limits, strategy_stats>>

(***************************************************************************)
(* Storage rows (database.py) and the chain reaction (main.py)             *)
(***************************************************************************)
IllustIds == {1, 2, 3}
CascadeSlots == 1 .. MaxCascades

\* config["feedback"]["max_chain_depth"] (main.py:223) and
\* config["feedback"]["related_push_limit"] (main.py:108), at their defaults
max_chain_depth == 3
related_push_limit == 1

NoSource == "none"
NoRow == [none |-> TRUE]
\* A free slot; ending and step tell how the cascade that held it ended
NoCascade == [pc |-> "free", seed |-> 0, current_depth |-> 0, lineage |-> 0,
              ending |-> "none", step |-> "none"]

\* A lookup that never finds a row
is_pushed_never(history, id) == FALSE

\* database.py:213-219: a row with this illust_id exists
is_pushed(history, id) == id \in DOMAIN history /\ history[id] # NoSource

\* database.py:222-229
mark_pushed(history, id, source) == [history EXCEPT ![id] = source]

\* database.py:231-236
get_push_source(history, id) == history[id]

\* An update that counts a success without counting the trial
update_strategy_stats_untried(stats, strategy, is_success) ==
    [stats EXCEPT ![strategy] =
        <<@[1] + (IF is_success THEN 1 ELSE 0), @[2] + (IF is_success THEN 0 ELSE 1)>>]

\* database.py:690-706: success_count + (1 or 0), total_count + 1
update_strategy_stats(stats, strategy, is_success) ==
    [stats EXCEPT ![strategy] =
        <<@[1] + (IF is_success THEN 1 ELSE 0), @[2] + 1>>]

\* The parameters of cache_illust (database.py:384)
CacheIllustParams == {"illust_id", "tags", "user_id", "user_name"}

\* database.py:384-391.  kw is the call's arguments by name.  A keyword the
\* signature does not have raises TypeError at the call; otherwise the row is
\* replaced, with the four columns the INSERT names.
cache_illust(cache, kw) ==
    IF DOMAIN kw \subseteq CacheIllustParams
    THEN [raised |-> FALSE,
          cache  |-> [cache EXCEPT ![kw.illust_id] =
                         [id |-> kw.illust_id, user_id |-> kw.user_id]]]
    ELSE [raised |-> TRUE, cache |-> cache]

\* database.py:409-424: the dict built from the SELECT, or None
get_cached_illust(cache, id) == cache[id]

\* dict.get(key, default)
DictGet(d, key, default) == IF key \in DOMAIN d THEN d[key] ELSE default

\* The arguments of the two cache_illust calls: on_feedback's fallback
\* (main.py:186) and push_related_task's (main.py:131-139)
PlainCacheCall(id) ==
    [illust_id |-> id, tags |-> <<>>, user_id |-> 0, user_name |-> ""]
ChainCacheCall(id, depth, parent) ==
    [illust_id |-> id, tags |-> <<>>, user_id |-> 0, user_name |-> "",
     chain_depth |-> depth, chain_parent_id |-> parent, chain_msg_id |-> 0]

\* The lineage counter of the model stops one past max_chain_depth
LineageCap == max_chain_depth + 1

ChainIdle ==
    /\ push_history = [i \in IllustIds |-> NoSource]
    /\ illust_cache = [i \in IllustIds |-> NoRow]
    /\ cascades = [c \in CascadeSlots |-> NoCascade]
    /\ origin = [i \in IllustIds |-> NoSource]
    /\ real_depth = [i \in IllustIds |-> -1]

\* The state after one cycle delivered illust 1: cached (main.py:552),
\* sent, and recorded with its source (main.py:569-570).
ChainStart ==
    /\ \E source \in StatKeys :
          push_history = [i \in IllustIds |-> IF i = 1 THEN source ELSE NoSource]
    /\ illust_cache = [i \in IllustIds |->
                          IF i = 1 THEN cache_illust([j \in IllustIds |-> NoRow],
                                                     PlainCacheCall(1)).cache[1]
                          ELSE NoRow]
    /\ cascades = [c \in CascadeSlots |-> NoCascade]
    /\ origin = [i \in IllustIds |-> IF i = 1 THEN "xp_search" ELSE NoSource]
    /\ real_depth = [i \in IllustIds |-> IF i = 1 THEN 0 ELSE -1]

\* on_feedback(illust_id, action), main.py:148-256.  api_ok: get_illust_detail
\* returns the work; bookmark_ok: add_bookmark does not raise.  The profile
\* update of profiler.apply_feedback is outside this model.
on_feedback(id, action, api_ok, bookmark_ok) ==
    LET cached == get_cached_illust(illust_cache, id)
        known  == cached # NoRow \/ api_ok
        cache1 == IF cached = NoRow /\ api_ok
                  THEN cache_illust(illust_cache, PlainCacheCall(id)).cache
                  ELSE illust_cache
        liked  == known /\ action = "like" /\ bookmark_ok
        source == get_push_source(push_history, id)
        chain_depth == IF cached # NoRow THEN DictGet(cached, "chain_depth", 0) ELSE 0
        next_depth  == chain_depth + 1
        launch == liked /\ next_depth <= max_chain_depth
    IN  /\ real_depth[id] >= 0
        /\ illust_cache' = cache1
        /\ strategy_stats' =
              IF liked /\ source # NoSource /\ source # "related"
              THEN update_strategy_stats(strategy_stats, source, TRUE)
              ELSE strategy_stats
        /\ liked /\ source # NoSource /\ source # "related"
              => strategy_stats[source][2] < 2 * MaxCount
        /\ IF launch
           THEN /\ real_depth[id] + 1 <= LineageCap
                /\ \E c \in DOMAIN cascades :
                      /\ cascades[c].pc = "free"
                      /\ cascades' = [cascades EXCEPT ![c] =
                            [pc |-> "created", seed |-> id,
                             current_depth |-> next_depth,
                             lineage |-> real_depth[id] + 1,
                             ending |-> "none", step |-> "none"]]
           ELSE UNCHANGED cascades
        /\ UNCHANGED <<push_history, origin, real_depth>>

OnFeedback ==
    \E id \in IllustIds, action \in {"like", "dislike"}, api_ok, bookmark_ok \in BOOLEAN :
        on_feedback(id, action, api_ok, bookmark_ok)

\* The awaited steps of push_related_task that can raise: the related
\* lookup (main.py:59), the persistence reads (79, 86), the artist score of
\* the scoring (99), the delivery (119), and the recording of the chain
\* metadata (131, 141)
CascadeSteps == {"get_related_illusts", "get_xp_profile", "is_pushed",
                 "get_artist_score", "push_illusts", "cache_illust", "mark_pushed"}

\* A function body without try/except: the exception leaves the coroutine
NoTryExcept(failed_step) ==
    IF failed_step = "none" THEN "returned" ELSE "escaped"

\* try: ... except Exception as e: logger.error(...) around the whole body
\* (main.py:56, 145-146): how the coroutine ends when failed_step raised
TryExcept(failed_step) ==
    IF failed_step = "none" THEN "returned" ELSE "failed"

\* The body of push_related_task (main.py:57-143) up to its end or to the
\* first step that raises.  related: what get_related_illusts returned;
\* passing: the works that pass check_illust and the blocked-artist test;
\* top: the work the scores put first; sent: the works push_illusts
\* delivered; with_notifier: a notifier with push_illusts is configured;
\* fail_at: the step the environment makes raise.  A fail_at the run does
\* not reach gives step "unreached".
CascadeBody(task, related, passing, top, sent, with_notifier, fail_at) ==
    LET candidates == {ill \in related : ill # task.seed}
        filtered == {ill \in candidates :
                        /\ ~is_pushed(push_history, ill)
                        /\ ill \in passing}
        top_results == IF related_push_limit >= 1 /\ filtered # {} THEN {top} ELSE {}
        stored == cache_illust(illust_cache,
                      ChainCacheCall(top, task.current_depth, task.seed))
        Ends(step, delivered, cache, history) ==
            [step |-> step, delivered |-> delivered, cache |-> cache, history |-> history]
        Quiet(step) == Ends(step, {}, illust_cache, push_history)
    IN  IF fail_at = "get_related_illusts" THEN Quiet(fail_at)
        ELSE IF related = {} THEN Quiet(IF fail_at = "none" THEN "none" ELSE "unreached")
        ELSE IF fail_at = "get_xp_profile" THEN Quiet(fail_at)
        ELSE IF fail_at = "is_pushed"
             THEN Quiet(IF candidates # {} THEN fail_at ELSE "unreached")
        ELSE IF fail_at = "get_artist_score"
             THEN Quiet(IF filtered # {} THEN fail_at ELSE "unreached")
        ELSE IF top_results = {} \/ ~with_notifier
             THEN Quiet(IF fail_at = "none" THEN "none" ELSE "unreached")
        ELSE IF fail_at = "push_illusts" THEN Ends(fail_at, sent, illust_cache, push_history)
        ELSE IF stored.raised
             THEN Ends(IF fail_at = "none" THEN "cache_illust" ELSE "unreached",
                       sent, illust_cache, push_history)
        ELSE IF fail_at = "cache_illust" THEN Ends(fail_at, sent, illust_cache, push_history)
        ELSE IF fail_at = "mark_pushed" THEN Ends(fail_at, sent, stored.cache, push_history)
        ELSE Ends("none", sent, stored.cache, mark_pushed(push_history, top, "related"))

\* push_related_task(seed_illust, parent_msg_id, current_depth), main.py:47-146
push_related_task(c, related, passing, sent, with_notifier, fail_at) ==
    LET task     == cascades[c]
        filtered == {ill \in related :
                        /\ ill # task.seed
                        /\ ~is_pushed(push_history, ill)
                        /\ ill \in passing}
    IN  /\ task.pc = "created"
        /\ \E top \in IF filtered = {} THEN {0} ELSE filtered :
              LET run == CascadeBody(task, related, passing, top, sent,
                                     with_notifier, fail_at)
              IN  /\ run.step # "unreached"
                  /\ sent \subseteq (IF filtered = {} \/ ~with_notifier THEN {} ELSE {top})
                  /\ run.delivered = sent
                  /\ cascades' = [cascades EXCEPT ![c] =
                        [NoCascade EXCEPT !.ending = TryExcept(run.step),
                                          !.step = run.step]]
                  /\ real_depth' = [i \in IllustIds |->
                        IF i \in run.delivered THEN task.lineage ELSE real_depth[i]]
                  /\ origin' = [i \in IllustIds |->
                        IF i \in run.delivered THEN "related" ELSE origin[i]]
                  /\ illust_cache' = run.cache
                  /\ push_history' = run.history
    /\ UNCHANGED strategy_stats

PushRelatedTask ==
    \E c \in DOMAIN cascades, related \in SUBSET IllustIds :
    \E passing \in SUBSET related, sent \in SUBSET related :
    \E with_notifier \in BOOLEAN, fail_at \in CascadeSteps \cup {"none"} :
        push_related_task(c, related, passing, sent, with_notifier, fail_at)

\* The sources whose deliveries are counted (main.py:573)
MabSources == {"xp_search", "subscription", "ranking"}

\* All trials recorded in strategy_stats
RECURSIVE TotalTrials(_, _)
TotalTrials(stats, keys) ==
    IF keys = {} THEN 0
    ELSE LET k == CHOOSE x \in keys : TRUE
         IN  stats[k][2] + TotalTrials(stats, keys \ {k})

\* The model stops recording trials after MaxCount + 1 of them
StatsBelowCap == TotalTrials(strategy_stats, StatKeys) <= MaxCount

\* A candidate as fetch_content hands it on: the fields of the fetched
\* work and the strategy attribute of fetcher.py:536-539
Candidate(id, strategy) == [id |-> id, user_id |-> 1, strategy |-> strategy]

\* getattr(illust, 'source', 'unknown'), main.py:569
SourceOf(illust) == DictGet(illust, "source", UnknownSource)

\* main_task's delivery of one work of the filtered list (main.py:549-574):
\* cached, sent, recorded with the source read from the candidate, and
\* counted as a trial when the source is one of MabSources
Deliver(illust) ==
    LET source == SourceOf(illust)
    IN  /\ ~is_pushed(push_history, illust.id)
        /\ illust_cache' = cache_illust(illust_cache, PlainCacheCall(illust.id)).cache
        /\ push_history' = mark_pushed(push_history, illust.id, source)
        /\ origin' = [origin EXCEPT ![illust.id] = illust.strategy]
        /\ real_depth' = [real_depth EXCEPT ![illust.id] = 0]
        /\ strategy_stats' = IF source \in MabSources
                             THEN update_strategy_stats(strategy_stats, source, FALSE)
                             ELSE strategy_stats
        /\ UNCHANGED cascades

DeliverOne ==
    \E id \in IllustIds, strategy \in MabSources : Deliver(Candidate(id, strategy))

\* A cascade whose get_related_illusts call gives no work (main.py:60-63):
\* it ends and frees its slot
CascadeFindsNothing ==
    \E c \in DOMAIN cascades : push_related_task(c, {}, {}, {}, TRUE, "none")

\* Two cascades that can run side by side
SiblingSlots == {1, 2}

\* A cascade whose get_related_illusts call gives work 2 or nothing
CascadeOfTwo ==
    \E c \in DOMAIN cascades, related \in SUBSET {2} :
    \E passing \in SUBSET related, sent \in SUBSET related :
    \E with_notifier \in BOOLEAN, fail_at \in CascadeSteps \cup {"none"} :
        push_related_task(c, related, passing, sent, with_notifier, fail_at)

\* A call of update_strategy_stats by itself (database.py:690-706)
UpdateStrategyStats ==
    /\ \E strategy \in StatKeys, is_success \in BOOLEAN :
          strategy_stats' = update_strategy_stats(strategy_stats, strategy, is_success)
    /\ UNCHANGED chainVars

\* DELETE FROM strategy_stats (database.py:678): every row reads (0, 0) again
ClearStrategyStats ==
    /\ strategy_stats' = [s \in StatKeys |-> <<0, 0>>]
    /\ UNCHANGED chainVars

(***************************************************************************)
(* calculate_match_score and ContentFilter (filter.py)                     *)
(***************************************************************************)
\* Real numbers are pairs <<numerator, denominator>> with a positive
\* denominator; the configuration's reals are tenths or hundredths.
FracLess(x, y) == x[1] * y[2] < y[1] * x[2]
FracGeq(x, y) == ~FracLess(x, y)

\* str.lower() on the tags and mode strings of the model
Lower(t) ==
    CASE t = "A" -> "a"
      [] t = "Gore" -> "gore"
      [] t = "False" -> "false"
      [] t = "True" -> "true"
      [] OTHER -> t

\* utils.normalize_tag, the normalisation the profile was built with
normalize_tag(tag) == Lower(tag)

Illust(id, user_id, bookmark_count, tags) ==
    [id |-> id, user_id |-> user_id, bookmark_count |-> bookmark_count,
     tags |-> tags, ai_type |-> 0, is_r18 |-> FALSE, age_days |-> 1]

\* The works the upstream strategies can hand to the filter
IllustPool ==
    { Illust(1, 1, 4, <<"a">>),
      Illust(2, 1, 0, <<"A", "b">>),
      Illust(3, 1, 2, <<"b">>),
      Illust(2, 2, 4, <<>>),
      Illust(3, 2, 0, <<"c">>),
      [Illust(1, 2, 0, <<"a">>) EXCEPT !.ai_type = 2],
      Illust(2, 1, 4, <<"a", "Gore">>),
      [Illust(3, 2, 2, <<"b">>) EXCEPT !.is_r18 = TRUE],
      [Illust(1, 1, 0, <<"a">>) EXCEPT !.age_days = 30] }

Batches == UNION {[1 .. n -> IllustPool] : n \in 0 .. MaxBatch}

\* ContentFilter.__init__ defaults (filter.py:77-89); match_weight and
\* artist_boost in tenths, min_match_score in hundredths
DefaultFilterConfig ==
    [blacklist_tags |-> {}, daily_limit |-> 20, exclude_ai |-> TRUE,
     min_match_score |-> 0, match_weight |-> 5, max_per_artist |-> 3,
     subscribed_artists |-> {}, artist_boost |-> 3, min_create_days |-> 0,
     r18_mode |-> "False"]

FilterConfigs ==
    { DefaultFilterConfig,
      [DefaultFilterConfig EXCEPT !.daily_limit = 1],
      [DefaultFilterConfig EXCEPT !.max_per_artist = 1],
      [DefaultFilterConfig EXCEPT !.daily_limit = 2, !.max_per_artist = 2,
          !.min_match_score = 95, !.subscribed_artists = {2},
          !.min_create_days = 7, !.r18_mode = "safe"],
      [DefaultFilterConfig EXCEPT !.daily_limit = 2, !.max_per_artist = 1,
          !.exclude_ai = FALSE, !.match_weight = 10, !.blacklist_tags = {"c"}],
      [DefaultFilterConfig EXCEPT !.daily_limit = 0, !.r18_mode = "True"],
      [DefaultFilterConfig EXCEPT !.daily_limit = 2, !.match_weight = 8] }

\* Values of r18_mode: the booleans of the old configuration and the strings
\* of the new one (filter.py:153-154)
MaturityModes == {"False", "True", "pure", "r18_only", "safe", "18-", "clean", "mixed"}

\* Configurations that differ in the hard filters
AdmitConfigs ==
    {[DefaultFilterConfig EXCEPT !.r18_mode = m] : m \in MaturityModes}
        \cup {[DefaultFilterConfig EXCEPT !.min_create_days = 7, !.r18_mode = "clean"],
              [DefaultFilterConfig EXCEPT !.exclude_ai = FALSE, !.blacklist_tags = {"c"},
                                          !.r18_mode = "r18_only"]}

AdmitBatches == UNION {[1 .. n -> IllustPool] : n \in 0 .. MaxAdmitBatch}

NoProfile == [t \in {} |-> 0]
ProfileChoices ==
    { NoProfile,
      [t \in {"a", "b"} |-> IF t = "a" THEN 2 ELSE 1],
      [t \in {"a", "b", "d", "e", "f"} |->
          IF t = "a" THEN 3 ELSE IF t = "b" THEN 2 ELSE 1] }

\* sorted(xp_profile.values(), reverse=True), filter.py:33
RECURSIVE sorted_weights(_, _)
sorted_weights(profile, keys) ==
    IF keys = {} THEN <<>>
    ELSE LET k == CHOOSE x \in keys : \A y \in keys : profile[x] >= profile[y]
         IN  <<profile[k]>> \o sorted_weights(profile, keys \ {k})

\* The profile weight a tag matches, or -1 for None (filter.py:46-51)
MatchedWeight(tag, profile) ==
    IF normalize_tag(tag) \in DOMAIN profile THEN profile[normalize_tag(tag)]
    ELSE IF Lower(tag) \in DOMAIN profile THEN profile[Lower(tag)]
    ELSE -1

\* filter.py:14-71.  ln(1+n)/ln(6) >= ln 2/ln 6 > 0.3 for every n >= 1, so
\* the quantity bonus is 0.3 whenever a tag matched.
calculate_match_score(illust, profile) ==
    IF Len(illust.tags) = 0 \/ DOMAIN profile = {} THEN <<0, 1>>
    ELSE LET sw == sorted_weights(profile, DOMAIN profile)
             max_weight == sw[1]
             \* top_threshold in tenths
             top_threshold == IF Len(sw) >= 5 THEN 10 * sw[(Len(sw) \div 5) + 1]
                              ELSE 8 * max_weight
             w == [k \in 1 .. Len(illust.tags) |-> MatchedWeight(illust.tags[k], profile)]
             matched == {k \in 1 .. Len(w) : w[k] # -1}
             total_score == SumSeq([k \in 1 .. Len(w) |-> IF k \in matched THEN w[k] ELSE 0])
             matched_count == Cardinality(matched)
             high_weight_matches == Cardinality({k \in matched : 10 * w[k] >= top_threshold})
             den == IF max_weight > 0 THEN 20 * matched_count * max_weight ELSE 20
             base == IF max_weight > 0 THEN 20 * total_score ELSE 0
             quantity_bonus == 6 * (den \div 20)
             quality_bonus == Min2(high_weight_matches, 4) * (den \div 20)
         IN  IF matched_count = 0 THEN <<0, 1>>
             ELSE <<Min2(base + quantity_bonus + quality_bonus, den), den>>

\* A blacklist made of the configured tags alone
BlacklistOfConfig(cfg) == {Lower(t) : t \in cfg.blacklist_tags}

\* filter.py:90, 102: the configured tags in lower case, and the hard-coded ones
BlacklistOf(cfg) == {Lower(t) : t \in cfg.blacklist_tags} \cup {"r-18g", "guro", "gore"}

\* ContentFilter.__init__ (filter.py:76-102): the attributes are the
\* arguments, except blacklist_tags
ContentFilter(args) == [args EXCEPT !.blacklist_tags = BlacklistOf(args)]

\* filter.py:275-278
add_to_blacklist(cfg, tag) ==
    [cfg EXCEPT !.blacklist_tags = @ \cup {Lower(tag)}]

\* filter.py:268-273
has_blacklisted_tag(cfg, illust) ==
    \E k \in 1 .. Len(illust.tags) : Lower(illust.tags[k]) \in cfg.blacklist_tags

\* The tests after the push-history lookup with no test of is_r18
PassesHardFiltersAnyMode(cfg, illust) ==
    /\ ~(cfg.min_create_days > 0 /\ illust.age_days > cfg.min_create_days)
    /\ ~has_blacklisted_tag(cfg, illust)
    /\ ~(cfg.exclude_ai /\ illust.ai_type = 2)

\* filter.py:139-168: the tests after the push-history lookup
PassesHardFilters(cfg, illust) ==
    LET mode_str == Lower(cfg.r18_mode)
    IN  /\ ~(cfg.min_create_days > 0 /\ illust.age_days > cfg.min_create_days)
        /\ ~has_blacklisted_tag(cfg, illust)
        /\ ~(cfg.exclude_ai /\ illust.ai_type = 2)
        /\ mode_str \in {"true", "r18_only", "pure"} => illust.is_r18
        /\ mode_str \in {"safe", "18-", "clean"} => ~illust.is_r18

\* filter.py:134-168
StageFilter(history, cfg, batch) ==
    LET Keep(illust) == ~is_pushed(history, illust.id) /\ PassesHardFilters(cfg, illust)
    IN  SelectSeq(batch, Keep)

\* filter.py:173-179
RECURSIVE UniqueById(_, _)
UniqueById(result, seen_ids) ==
    IF result = <<>> THEN <<>>
    ELSE IF Head(result).id \in seen_ids THEN UniqueById(Tail(result), seen_ids)
    ELSE <<Head(result)>> \o UniqueById(Tail(result), seen_ids \cup {Head(result).id})

\* A scoring that tests min_match_score with and without a profile
ScoreOfAlwaysTested(cfg, profile, illust) ==
    LET raw == IF DOMAIN profile # {} THEN calculate_match_score(illust, profile)
               ELSE <<0, 1>>
        score == IF illust.user_id \in cfg.subscribed_artists
                 THEN <<Min2(10 * raw[1] + cfg.artist_boost * raw[2], 10 * raw[2]),
                        10 * raw[2]>>
                 ELSE raw
    IN  IF FracLess(score, <<cfg.min_match_score, 100>>) THEN <<-1, 1>> ELSE score

\* filter.py:183-199: the score of one work, or "drop"
ScoreOf(cfg, profile, illust) ==
    IF DOMAIN profile # {}
    THEN LET raw == calculate_match_score(illust, profile)
             score == IF illust.user_id \in cfg.subscribed_artists
                      THEN <<Min2(10 * raw[1] + cfg.artist_boost * raw[2], 10 * raw[2]),
                             10 * raw[2]>>
                      ELSE raw
         IN  IF FracLess(score, <<cfg.min_match_score, 100>>) THEN <<-1, 1>> ELSE score
    ELSE IF illust.user_id \in cfg.subscribed_artists THEN <<cfg.artist_boost, 10>>
    ELSE <<0, 1>>

Scored(cfg, profile, unique_result) ==
    LET pairs == [k \in 1 .. Len(unique_result) |->
                     [illust |-> unique_result[k],
                      score  |-> ScoreOf(cfg, profile, unique_result[k])]]
        Kept(item) == item.score[1] >= 0
    IN  SelectSeq(pairs, Kept)

\* filter.py:203-208: the key of one scored work
sort_key(cfg, max_bookmark, item) ==
    << item.score[1] * cfg.match_weight * max_bookmark
         + item.illust.bookmark_count * (10 - cfg.match_weight) * item.score[2],
       10 * item.score[2] * max_bookmark >>

\* list.sort(key, reverse=True): descending, equal keys keep their order
RECURSIVE InsertDescending(_, _, _, _)
InsertDescending(cfg, max_bookmark, sorted, item) ==
    IF sorted = <<>> THEN <<item>>
    ELSE IF FracGeq(sort_key(cfg, max_bookmark, Head(sorted)),
                    sort_key(cfg, max_bookmark, item))
         THEN <<Head(sorted)>> \o InsertDescending(cfg, max_bookmark, Tail(sorted), item)
         ELSE <<item>> \o sorted

RECURSIVE SortDescending(_, _, _, _)
SortDescending(cfg, max_bookmark, done, todo) ==
    IF todo = <<>> THEN done
    ELSE SortDescending(cfg, max_bookmark,
                        InsertDescending(cfg, max_bookmark, done, Head(todo)), Tail(todo))

\* filter.py:202-214
CompositeSort(cfg, scored_result) ==
    IF scored_result = <<>> THEN <<>>
    ELSE LET top == CHOOSE k \in 1 .. Len(scored_result) :
                       \A j \in 1 .. Len(scored_result) :
                          scored_result[k].illust.bookmark_count
                             >= scored_result[j].illust.bookmark_count
             largest == scored_result[top].illust.bookmark_count
             max_bookmark == IF largest = 0 THEN 1 ELSE largest
         IN  SortDescending(cfg, max_bookmark, <<>>, scored_result)

\* The same walk with no per-artist test
RECURSIVE DiversityControlOff(_, _, _)
DiversityControlOff(cfg, sorted, artist_count) ==
    IF sorted = <<>> THEN <<>>
    ELSE <<[f \in DOMAIN Head(sorted).illust \cup {"match_score"} |->
              IF f = "match_score" THEN Head(sorted).score ELSE Head(sorted).illust[f]]>>
         \o DiversityControlOff(cfg, Tail(sorted), artist_count)

\* filter.py:216-225: artist_count maps an artist to the works kept so far
RECURSIVE DiversityControl(_, _, _)
DiversityControl(cfg, sorted, artist_count) ==
    IF sorted = <<>> THEN <<>>
    ELSE LET illust == Head(sorted).illust
             count == artist_count[illust.user_id]
         IN  IF count < cfg.max_per_artist
             THEN <<[f \in DOMAIN illust \cup {"match_score"} |->
                       IF f = "match_score" THEN Head(sorted).score ELSE illust[f]]>>
                  \o DiversityControl(cfg, Tail(sorted),
                        [artist_count EXCEPT ![illust.user_id] = count + 1])
             ELSE DiversityControl(cfg, Tail(sorted), artist_count)

\* A slice that keeps everything
DailyLimitOff(diverse_result, daily_limit) == diverse_result

\* diverse_result[:daily_limit], filter.py:228
DailyLimit(diverse_result, daily_limit) ==
    IF daily_limit >= 0
    THEN SubSeq(diverse_result, 1, Min2(daily_limit, Len(diverse_result)))
    ELSE SubSeq(diverse_result, 1, Max2(Len(diverse_result) + daily_limit, 0))

Artists == {illust.user_id : illust \in IllustPool}

\* The stages of filter, by name
StageResult(history, cfg, batch) == StageFilter(history, cfg, batch)
UniqueResult(history, cfg, batch) == UniqueById(StageResult(history, cfg, batch), {})
SortedResult(history, cfg, batch, profile) ==
    CompositeSort(cfg, Scored(cfg, profile, UniqueResult(history, cfg, batch)))
DiverseResult(history, cfg, batch, profile) ==
    DiversityControl(cfg, SortedResult(history, cfg, batch, profile),
                     [a \in Artists |-> 0])

\* ContentFilter.filter, filter.py:104-237
filter(history, cfg, batch, profile) ==
    IF batch = <<>> THEN <<>>
    ELSE DailyLimit(DiverseResult(history, cfg, batch, profile), cfg.daily_limit)

\* A check that looks at the tags only
check_illust_tags_only(cfg, illust) ==
    illust.id # 0 /\ ~has_blacklisted_tag(cfg, illust)

\* filter.py:239-266
check_illust(cfg, illust) ==
    LET mode_str == Lower(cfg.r18_mode)
    IN  IF illust.id = 0 THEN FALSE
        ELSE IF cfg.min_create_days > 0 /\ illust.age_days > cfg.min_create_days
        THEN FALSE
        ELSE IF has_blacklisted_tag(cfg, illust) THEN FALSE
        ELSE IF cfg.exclude_ai /\ illust.ai_type = 2 THEN FALSE
        ELSE IF mode_str \in {"true", "r18_only", "pure"} THEN illust.is_r18
        ELSE IF mode_str \in {"safe", "18-", "clean"} THEN ~illust.is_r18
        ELSE TRUE

NoCheck == [none |-> TRUE]

FilterIdle ==
    /\ filter_config = ContentFilter(DefaultFilterConfig)
    /\ illusts = <<>>
    /\ xp_profile = NoProfile
    /\ final_result = <<>>
    /\ second_result = <<>>
    /\ filter_pc = "idle"
    /\ check_result = NoCheck

Filter ==
    /\ filter_pc = "idle"
    /\ final_result' = filter(push_history, filter_config, illusts, xp_profile)
    /\ filter_pc' = "done"
    /\ UNCHANGED <<filter_config, illusts, xp_profile, second_result, check_result>>

\* A second call of filter on the list the first call returned, with the
\* same ContentFilter, profile and push history
FilterAgain ==
    /\ filter_pc = "done"
    /\ second_result' = filter(push_history, filter_config, final_result, xp_profile)
    /\ filter_pc' = "again"
    /\ UNCHANGED <<filter_config, illusts, xp_profile, final_result, check_result>>

\* Tags the bot's block command is given
BlockableTags == {"c", "Gore"}

\* ContentFilter.add_to_blacklist(tag), at any time
AddToBlacklist ==
    /\ \E tag \in BlockableTags : filter_config' = add_to_blacklist(filter_config, tag)
    /\ UNCHANGED <<illusts, xp_profile, final_result, second_result, filter_pc,
                   check_result>>

\* ContentFilter.check_illust on one work of the batch
CheckIllust ==
    /\ \E k \in 1 .. Len(illusts) :
          check_result' = [illust   |-> illusts[k],
                           accepted |-> check_illust(filter_config, illusts[k])]
    /\ UNCHANGED <<filter_config, illusts, xp_profile, final_result, second_result,
                   filter_pc>>

(***************************************************************************)
(* The stored profile: adjust_tag_weight (database.py) and scoring         *)
(***************************************************************************)
\* Tags a work can carry and tags feedback can adjust
ScoreVocabulary == {"a", "A", "b", "cat", "dog"}
AdjustableTags == {"a", "b", "cat"}
\* The deltas of a like and of a dislike
AdjustDeltas == {1, -2}

TagLists == UNION {[1 .. n -> ScoreVocabulary] : n \in 1 .. MaxTags}

\* Profiles as the profiler builds them: positive weights
BuiltProfiles ==
    { [t \in {"a", "b"} |-> IF t = "a" THEN 2 ELSE 1],
      [t \in {"a", "b", "d", "e", "f"} |->
          IF t = "a" THEN 3 ELSE IF t = "b" THEN 2 ELSE 1],
      [t \in {"cat", "hat"} |-> IF t = "cat" THEN 10 ELSE 2] }

\* database.py:285-294: INSERT ... ON CONFLICT(tag) DO UPDATE SET
\* weight = weight + excluded.weight
adjust_tag_weight(profile, tag, delta) ==
    [t \in DOMAIN profile \cup {tag} |->
        IF t # tag THEN profile[t]
        ELSE IF tag \in DOMAIN profile THEN profile[tag] + delta ELSE delta]

ScoreIdle ==
    /\ score_tags = <<>>
    /\ match_score = <<0, 1>>
    /\ adjust_count = 0
    /\ score_pc = "idle"

AdjustTagWeight ==
    /\ score_pc = "idle"
    /\ adjust_count < MaxAdjust
    /\ \E tag \in AdjustableTags, delta \in AdjustDeltas :
          xp_profile' = adjust_tag_weight(xp_profile, tag, delta)
    /\ adjust_count' = adjust_count + 1
    /\ UNCHANGED <<score_tags, match_score, score_pc>>

\* calculate_match_score(illust, get_xp_profile()), as main.py:529-544 and
\* filter.py:185 use it
CalculateMatchScore ==
    /\ score_pc = "idle"
    /\ match_score' = calculate_match_score([tags |-> score_tags], xp_profile)
    /\ score_pc' = "done"
    /\ UNCHANGED <<xp_profile, score_tags, adjust_count>>

(***************************************************************************)
(* ContentFetcher.discover (fetcher.py)                                    *)
(***************************************************************************)
\* Strings are sequences of characters.  a in b, for strings
IsSubstring(a, b) ==
    \E i \in 0 .. Len(b) - Len(a) :
        \A k \in 1 .. Len(a) : b[i + k] = a[k]

SearchTags == {<<"x">>, <<"y">>, <<"x", "y">>}

\* expand_search_query as the tables it can be: the tag itself, the tag with
\* an alias, a translation of the tag, one query for every tag
ExpandChoices ==
    { [t \in SearchTags |-> t],
      [t \in SearchTags |-> t \o <<"|", "z">>],
      [t \in SearchTags |-> IF t = <<"x">> THEN <<"z">>
                            ELSE IF t = <<"y">> THEN <<"z", "z">> ELSE <<"w">>],
      [t \in SearchTags |-> <<"z">>] }

PairLists == UNION {[1 .. n -> SearchTags \X SearchTags] : n \in 0 .. MaxPairs}

\* Seven tags none of which is part of another: they give 21 unordered pairs
ComboTags == <<<<"a">>, <<"b">>, <<"c">>, <<"d">>, <<"e">>, <<"f">>, <<"g">>>>

\* A tag the pair table does not hold
LoneTag == <<"h">>

\* Every ordered pair of different ComboTags, (a, b) ... (a, g), (b, a) ...:
\* each unordered pair is there twice, as (t1, t2) and as (t2, t1)
OrderedPairs ==
    LET n == Len(ComboTags)
    IN  [k \in 1 .. n * (n - 1) |->
            LET i == ((k - 1) \div (n - 1)) + 1
                r == ((k - 1) % (n - 1)) + 1
                j == IF r >= i THEN r + 1 ELSE r
            IN  <<ComboTags[i], ComboTags[j]>>]

\* What get_top_tag_pairs can return: the first pairs of a table with few
\* pairs, or those of a table with many
LongPairLists ==
    {SubSeq(OrderedPairs, 1, e) :
        e \in (0 .. MaxPairs) \cup (Len(OrderedPairs) - MaxPairs .. Len(OrderedPairs))}

\* fetcher.py:83
max_combo_tasks == 20
\* fetcher.py:142
MAX_PER_ARTIST == 3

\* What one search task gives to gather: an exception, no work, or one work
SearchOutcomes == {"raise", "empty", "found"}

\* A key that keeps the order of the two tags
pair_key_ordered(t1, t2) == {<<"1">> \o t1, <<"2">> \o t2}

\* tuple(sorted([t1, t2])) (fetcher.py:91): the same key for (a, b) and (b, a)
pair_key(t1, t2) == {t1, t2}

\* fetcher.py:85-107: the tasks list and used_tags after the first k pairs
RECURSIVE ComboLoop(_, _, _, _)
ComboLoop(pairs, exp, tasks, used) ==
    IF pairs = <<>> \/ Len(tasks) >= max_combo_tasks
    THEN [tasks |-> tasks, used |-> used]
    ELSE LET t1 == Head(pairs)[1]
             t2 == Head(pairs)[2]
             key == pair_key(t1, t2)
             q1 == exp[t1]
             q2 == exp[t2]
         IN  IF key \in used
             THEN ComboLoop(Tail(pairs), exp, tasks, used)
             ELSE IF q1 = q2 \/ IsSubstring(t1, q2) \/ IsSubstring(t2, q1)
                  THEN ComboLoop(Tail(pairs), exp, tasks, used \cup {key})
                  ELSE ComboLoop(Tail(pairs), exp, Append(tasks, <<t1, t2>>),
                                 used \cup {key})

\* The artists of the works found
FoundArtists == {1, 2}

\* The work a task found: its id is the task's number, its artist is 1 for
\* an even number and 2 for an odd one
FoundWork(n) == [id |-> n, user_id |-> 1 + (n % 2)]

\* The outcomes of n gathered search tasks: every combination for a few
\* tasks; for many, the same outcome for all, or works from the first j only
OutcomeLists(n) ==
    IF n <= MaxEnumerated THEN [1 .. n -> SearchOutcomes]
    ELSE {[k \in 1 .. n |-> o] : o \in SearchOutcomes}
             \cup {[k \in 1 .. n |-> IF k <= j THEN "found" ELSE "empty"] : j \in 1 .. n}

\* gather(..., return_exceptions=True) and the extend loop (fetcher.py:116-121,
\* 143-147): the lists are appended, the exceptions are not
RECURSIVE ExtendWith(_, _, _)
ExtendWith(all, outcomes, base) ==
    IF outcomes = <<>> THEN all
    ELSE ExtendWith(IF Head(outcomes) = "found"
                    THEN Append(all, FoundWork(base + 1)) ELSE all,
                    Tail(outcomes), base + 1)

\* A list that is handed on whole
ArtistCapNone(all, artist_counts) == all

\* fetcher.py:149-158
RECURSIVE ArtistCap(_, _)
ArtistCap(all, artist_counts) ==
    IF all = <<>> THEN <<>>
    ELSE IF artist_counts[Head(all).user_id] < MAX_PER_ARTIST
         THEN <<Head(all)>> \o ArtistCap(Tail(all),
                 [artist_counts EXCEPT ![Head(all).user_id] = @ + 1])
         ELSE ArtistCap(Tail(all), artist_counts)

\* _weighted_sample(xp_tags, k=1) (fetcher.py:284-316): every tag when there
\* is at most one; otherwise one tag, or none when rounding leaves the last
\* cumulative sum below the random number
WeightedSample(tags) ==
    IF Len(tags) <= 1 THEN {tags}
    ELSE {<<tags[k]>> : k \in 1 .. Len(tags)} \cup {<<>>}

DiscoverIdle ==
    /\ top_pairs = <<>>
    /\ expand = [t \in SearchTags |-> t]
    /\ xp_tags = <<>>
    /\ discover_limit = 0
    /\ combo_tasks = <<>>
    /\ single_tasks = <<>>
    /\ discover_all = <<>>
    /\ discover_result = <<>>
    /\ discover_failed = FALSE
    /\ discover_pc = "idle"

\* fetcher.py:70-107: up to the creation of the pair tasks.  db_ok: the read
\* of the pair table (fetcher.py:79) does not raise.
DiscoverStart ==
    /\ discover_pc = "idle"
    /\ \E db_ok \in BOOLEAN :
          IF xp_tags = <<>>
          THEN /\ discover_pc' = "done"
               /\ UNCHANGED combo_tasks
          ELSE IF ~db_ok
          THEN /\ discover_pc' = "raised"
               /\ UNCHANGED combo_tasks
          ELSE /\ combo_tasks' = ComboLoop(top_pairs, expand, <<>>, {}).tasks
               /\ discover_pc' = "combo"
    /\ UNCHANGED <<top_pairs, expand, xp_tags, discover_limit, single_tasks,
                   discover_all, discover_result, discover_failed>>

\* fetcher.py:115-121: the pair tasks end, each with its outcome
DiscoverGather ==
    /\ discover_pc = "combo"
    /\ \E outcomes \in OutcomeLists(Len(combo_tasks)) :
          /\ discover_all' = ExtendWith(<<>>, outcomes, 0)
          /\ discover_failed' = ("raise" \in Range(outcomes))
    /\ discover_pc' = "fallback"
    /\ UNCHANGED <<top_pairs, expand, xp_tags, discover_limit, combo_tasks,
                   single_tasks, discover_result>>

\* fetcher.py:123-160: the single-tag fallback, the artist cap and the slice
DiscoverFinish ==
    /\ discover_pc = "fallback"
    /\ LET still_missing == discover_limit - Len(discover_all)
           used == UNION ComboLoop(top_pairs, expand, <<>>, {}).used
       IN  IF still_missing > 0
           THEN \E samples \in [1 .. 3 -> WeightedSample(xp_tags)] :
                  LET picked == SelectSeq([k \in 1 .. 3 |->
                                             IF samples[k] = <<>> THEN <<>>
                                             ELSE samples[k][1]],
                                          LAMBDA t : t # <<>> /\ t \notin used)
                  IN  /\ single_tasks' = picked
                      /\ \E outcomes \in [1 .. Len(picked) -> SearchOutcomes] :
                            /\ discover_all' = ExtendWith(discover_all, outcomes,
                                                          max_combo_tasks)
                            /\ discover_failed' =
                                  (discover_failed \/ "raise" \in Range(outcomes))
           ELSE UNCHANGED <<single_tasks, discover_all, discover_failed>>
    /\ discover_result' =
          LET capped == ArtistCap(discover_all', [a \in FoundArtists |-> 0])
          IN  SubSeq(capped, 1, Min2(Max2(discover_limit, 0), Len(capped)))
    /\ discover_pc' = "done"
    /\ UNCHANGED <<top_pairs, expand, xp_tags, discover_limit, combo_tasks>>

(***************************************************************************)
(* ContentFetcher.fetch_content and the strategies it gathers (fetcher.py) *)
(***************************************************************************)
\* A content-API call inside try/except Exception (fetcher.py:222-229,
\* 237-249, 553-559, 458-462): the exception is logged, nothing is added
CallInTry(name, outcome, id) ==
    [works  |-> IF outcome = "found" THEN <<FoundWork(id)>> ELSE <<>>,
     raised |-> FALSE,
     failed |-> IF outcome = "raise" THEN {name} ELSE {}]

\* fetcher.py:214-252, with one subscribed artist; the artist's work is
\* skipped when the feed already gave its id
check_subscriptions(feed, artist) ==
    LET c1 == CallInTry("fetch_follow_latest", feed, 31)
        c2 == CallInTry("get_user_illusts", artist, 32)
    IN  [works  |-> c1.works \o c2.works,
         raised |-> c1.raised \/ c2.raised,
         failed |-> c1.failed \cup c2.failed]

\* fetcher.py:549-560, with one ranking mode
fetch_ranking_with_limit(enabled, limit, outcome) ==
    IF ~enabled \/ limit <= 0 THEN [works |-> <<>>, raised |-> FALSE, failed |-> {}]
    ELSE CallInTry("get_ranking", outcome, 41)

\* fetcher.py:421-491, for a seed that was found
discover_related(outcome) == CallInTry("get_related_illusts", outcome, 51)

NewTask(kind) == [kind |-> kind, status |-> "running", works |-> <<>>, error |-> "none"]

\* The state of the k-th awaitable; discover's is the state of discover
TaskView(k) ==
    IF fetch_tasks[k].kind # "discover" THEN fetch_tasks[k]
    ELSE [kind   |-> "discover",
          status |-> IF discover_pc = "done" THEN "returned"
                     ELSE IF discover_pc = "raised" THEN "raised" ELSE "running",
          works  |-> discover_result,
          error  |-> IF discover_pc = "raised" THEN "db" ELSE "none"]

\* isinstance(results[k], list): asyncio.sleep(0) gives None
ListOrEmpty(k) == IF TaskView(k).kind = "sleep" THEN <<>> ELSE TaskView(k).works

\* fetcher.py:536-539
Tagged(works, strategy) ==
    [k \in 1 .. Len(works) |->
        [id |-> works[k].id, user_id |-> works[k].user_id, strategy |-> strategy]]

FetchIdle ==
    /\ fetch_quotas = NoQuotas
    /\ ranking_enabled = FALSE
    /\ fetch_tasks = <<>>
    /\ api_failed = {}
    /\ fetch_result = <<>>
    /\ fetch_error = "none"
    /\ fetch_pc = "idle"

\* fetcher.py:499-520: the quotas and the awaitables
FetchStart ==
    /\ fetch_pc = "idle"
    /\ IF \E s \in Range(strategies) : SamplesOf(strategy_stats, s) = {}
       THEN /\ fetch_pc' = "raised"
            /\ fetch_error' = "ValueError"
            /\ UNCHANGED <<fetch_quotas, fetch_tasks, discover_limit>>
       ELSE \E sc \in [Range(strategies) -> 1 .. ScoreGrid] :
            \E low \in SUBSET Range(strategies) :
              /\ \A s \in Range(strategies) : sc[s] \in SamplesOf(strategy_stats, s)
              /\ LET tg == [s \in Range(strategies) |-> Target(total_limit, sc, low, s)]
                     quotas == select_strategies(total_limit, mab_limits, tg).final_quotas
                 IN  /\ fetch_quotas' = quotas
                     /\ discover_limit' = quotas["xp_search"]
                     /\ fetch_tasks' =
                           (IF quotas["xp_search"] > 0 THEN <<NewTask("discover")>> ELSE <<>>)
                           \o <<NewTask("check_subscriptions")>>
                           \o <<IF quotas["ranking"] > 0 /\ ranking_enabled
                                THEN NewTask("fetch_ranking_with_limit")
                                ELSE NewTask("sleep")>>
                           \o <<IF DictGet(quotas, "related", 0) > 0
                                THEN NewTask("discover_related")
                                ELSE NewTask("sleep")>>
              /\ fetch_pc' = "gather"
              /\ UNCHANGED fetch_error
    /\ UNCHANGED <<ranking_enabled, api_failed, fetch_result>>
    /\ UNCHANGED <<top_pairs, expand, xp_tags, combo_tasks, single_tasks, discover_all,
                   discover_result, discover_failed, discover_pc>>

\* One awaitable other than discover runs to its end
StrategyTaskEnds(k) ==
    /\ fetch_pc # "idle"
    /\ k \in 1 .. Len(fetch_tasks)
    /\ fetch_tasks[k].kind # "discover"
    /\ fetch_tasks[k].status = "running"
    /\ \E o1, o2 \in SearchOutcomes :
          LET kind == fetch_tasks[k].kind
              res  == IF kind = "check_subscriptions" THEN check_subscriptions(o1, o2)
                      ELSE IF kind = "fetch_ranking_with_limit"
                      THEN fetch_ranking_with_limit(ranking_enabled,
                                                    fetch_quotas["ranking"], o1)
                      ELSE IF kind = "discover_related" THEN discover_related(o1)
                      ELSE [works |-> <<>>, raised |-> FALSE, failed |-> {}]
          IN  /\ fetch_tasks' = [fetch_tasks EXCEPT ![k] =
                    [kind   |-> kind,
                     status |-> IF res.raised THEN "raised" ELSE "returned",
                     works  |-> IF res.raised THEN <<>> ELSE res.works,
                     error  |-> IF res.raised THEN "api" ELSE "none"]]
              /\ api_failed' = api_failed \cup res.failed
    /\ UNCHANGED <<fetch_quotas, ranking_enabled, fetch_result, fetch_error, fetch_pc>>

\* A wait that ends with the first awaitable that has returned
FirstReturned == \E k \in 1 .. Len(fetch_tasks) : TaskView(k).status = "returned"

\* asyncio.gather(*tasks) has its result when every awaitable has returned
\* (fetcher.py:523)
AllReturned == \A k \in 1 .. Len(fetch_tasks) : TaskView(k).status = "returned"

\* await asyncio.gather(*tasks) and the rest of fetch_content
\* (fetcher.py:522-546): gather raises as soon as one awaitable has raised,
\* otherwise it returns when all have ended
FetchGather ==
    /\ fetch_pc = "gather"
    /\ LET n == Len(fetch_tasks)
           raisedTasks == {k \in 1 .. n : TaskView(k).status = "raised"}
       IN  IF raisedTasks # {}
           THEN /\ \E k \in raisedTasks : fetch_error' = TaskView(k).error
                /\ fetch_pc' = "raised"
                /\ UNCHANGED fetch_result
           ELSE /\ AllReturned
                /\ IF n < 4
                   THEN /\ fetch_error' = "IndexError"
                        /\ fetch_pc' = "raised"
                        /\ UNCHANGED fetch_result
                   ELSE /\ fetch_result' =
                              Tagged(ListOrEmpty(1), "xp_search")
                              \o Tagged(ListOrEmpty(2), "subscription")
                              \o Tagged(ListOrEmpty(3), "ranking")
                              \o Tagged(ListOrEmpty(4), "related")
                        /\ fetch_pc' = "returned"
                        /\ UNCHANGED fetch_error
    /\ UNCHANGED <<fetch_quotas, ranking_enabled, fetch_tasks, api_failed>>

\* The candidates as the filter reads them; the fetch model carries no
\* tags and no bookmark counts
AsBatch(works) ==
    [k \in 1 .. Len(works) |-> Illust(works[k].id, works[k].user_id, 0, <<>>)]

\* main_task after fetch_content has returned (main.py:522-545): the
\* ContentFilter is built and filter is awaited on the whole list
CycleFilter ==
    /\ fetch_pc = "returned"
    /\ filter_pc = "idle"
    /\ illusts' = AsBatch(fetch_result)
    /\ final_result' = filter(push_history, filter_config, illusts', xp_profile)
    /\ filter_pc' = "done"
    /\ UNCHANGED <<filter_config, xp_profile, second_result, check_result>>

\* The discover awaitable exists and gather has been called
DiscoverRuns ==
    /\ fetch_pc # "idle"
    /\ Len(fetch_tasks) >= 1
    /\ fetch_tasks[1].kind = "discover"

(***************************************************************************)
(* ContentFetcher._get_dynamic_threshold (fetcher.py:315-348)              *)
(***************************************************************************)
\* The tags the search tasks ask a threshold for
ThresholdTags == {"x", "y"}

\* The coroutines of _get_dynamic_threshold one fetcher runs: _search_pair
\* gathers two of them (fetcher.py:167-170), discover gathers the pair
\* searches (fetcher.py:116-117)
ThresholdCalls == 1 .. MaxCalls

\* self.bookmark_threshold["search"] (fetcher.py:164, 190)
ThresholdBases == {50, 1000}

\* bookmark_count of the first work of the top-1 search
BookmarkCounts == {0, 2000, 2020, 30000}

\* How client.search_illusts(tags=[tag], limit=1) can end (fetcher.py:325-337)
LookupOutcomes ==
    {[kind |-> "raise", bookmark_count |-> 0], [kind |-> "empty", bookmark_count |-> 0]}
        \cup {[kind |-> "found", bookmark_count |-> b] : b \in BookmarkCounts}

\* fetcher.py:333, 337
FallbackBookmarks == 1000

\* fetcher.py:343
MinRelative == 100

NoBookmarks == -1

NoThresholdCall == [pc |-> "idle", tag |-> "", base |-> 0, hit |-> FALSE,
                    outcome |-> "none", max_bookmarks |-> NoBookmarks,
                    result |-> NoBookmarks]

\* relative_threshold without the floor of 100
relative_threshold_unfloored(max_bookmarks) == (max_bookmarks * 5) \div 100

\* max(100, int(max_bookmarks * 0.05)) (fetcher.py:343); the product with
\* 0.05 truncated is the twentieth part for every count up to two million
relative_threshold(max_bookmarks) ==
    Max2(MinRelative, (max_bookmarks * 5) \div 100)

\* min(base, relative_threshold) (fetcher.py:346)
final_threshold(max_bookmarks, base) ==
    Min2(base, relative_threshold(max_bookmarks))

\* The try/except around the top-1 search (fetcher.py:323-337): the
\* bookmark count of the work found, the fallback otherwise
LookupBookmarks(outcome) ==
    [raised |-> FALSE,
     value  |-> IF outcome.kind = "found" THEN outcome.bookmark_count
                ELSE FallbackBookmarks]

\* fetcher.py:320-325: the call reads the cache; a hit computes and returns
\* without suspending, a miss issues the top-1 search and suspends on it
ThresholdStart(c, tag, base) ==
    /\ threshold_calls[c].pc = "idle"
    /\ IF search_max_bookmarks_cache[tag] # NoBookmarks
       THEN /\ threshold_calls' =
                   [threshold_calls EXCEPT ![c] =
                       [pc |-> "returned", tag |-> tag, base |-> base, hit |-> TRUE,
                        outcome |-> "none",
                        max_bookmarks |-> search_max_bookmarks_cache[tag],
                        result |-> final_threshold(search_max_bookmarks_cache[tag],
                                                   base)]]
            /\ UNCHANGED lookups
       ELSE /\ threshold_calls' =
                   [threshold_calls EXCEPT ![c] =
                       [NoThresholdCall EXCEPT !.pc = "awaiting", !.tag = tag,
                                               !.base = base]]
            /\ lookups' = [lookups EXCEPT ![tag] = @ + 1]
    /\ UNCHANGED search_max_bookmarks_cache

\* fetcher.py:325-348: the search ends, the count is saved in the cache and
\* the threshold is returned
ThresholdResume(c, outcome) ==
    LET call == threshold_calls[c]
        got  == LookupBookmarks(outcome)
    IN  /\ call.pc = "awaiting"
        /\ IF got.raised
           THEN /\ threshold_calls' =
                       [threshold_calls EXCEPT ![c].pc = "raised",
                                               ![c].outcome = outcome.kind]
                /\ UNCHANGED search_max_bookmarks_cache
           ELSE /\ threshold_calls' =
                       [threshold_calls EXCEPT
                           ![c].pc = "returned",
                           ![c].outcome = outcome.kind,
                           ![c].max_bookmarks = got.value,
                           ![c].result = final_threshold(got.value, call.base)]
                /\ search_max_bookmarks_cache' =
                       [search_max_bookmarks_cache EXCEPT ![call.tag] = got.value]
        /\ UNCHANGED lookups

GetThresholdStarts ==
    \E c \in ThresholdCalls, tag \in ThresholdTags, base \in ThresholdBases :
        ThresholdStart(c, tag, base)

GetThresholdResumes ==
    \E c \in ThresholdCalls, outcome \in LookupOutcomes : ThresholdResume(c, outcome)

\* A fetcher as __init__ leaves it (fetcher.py:45), no search running
ThresholdIdle ==
    /\ search_max_bookmarks_cache = [t \in ThresholdTags |-> NoBookmarks]
    /\ threshold_calls = [c \in ThresholdCalls |-> NoThresholdCall]
    /\ lookups = [t \in ThresholdTags |-> 0]

(***************************************************************************)
(* push_related_task: the works a cascade hands to delivery (main.py)      *)
(***************************************************************************)
\* What get_related_illusts can return: works of the pool, each id once
RelatedLists ==
    {r \in UNION {[1 .. n -> IllustPool] : n \in 0 .. MaxRelated} :
        \A j, k \in 1 .. Len(r) : j # k => r[j].id # r[k].id}

\* main.py:94-101: the profile weights of the tags the profile holds, plus
\* the artist's score
related_score(ill, profile, scores_of) ==
    SumSeq([k \in 1 .. Len(ill.tags) |->
               IF Lower(ill.tags[k]) \in DOMAIN profile
               THEN profile[Lower(ill.tags[k])] ELSE 0])
        + scores_of[ill.user_id]

\* main.py:81-103: the loop over related
related_filtered(seed, related, history, cfg, blocked, profile, scores_of) ==
    LET Keep(ill) == /\ ill.id # seed
                     /\ ~is_pushed(history, ill.id)
                     /\ check_illust(cfg, ill)
                     /\ ill.user_id \notin blocked
        kept == SelectSeq(related, Keep)
    IN  [k \in 1 .. Len(kept) |->
            [illust |-> kept[k], score |-> related_score(kept[k], profile, scores_of)]]

\* list.sort(key=lambda x: x[1], reverse=True): descending, equal scores
\* keep their order
RECURSIVE InsertByScore(_, _)
InsertByScore(sorted, item) ==
    IF sorted = <<>> THEN <<item>>
    ELSE IF Head(sorted).score >= item.score
         THEN <<Head(sorted)>> \o InsertByScore(Tail(sorted), item)
         ELSE <<item>> \o sorted

RECURSIVE SortByScore(_, _)
SortByScore(done, todo) ==
    IF todo = <<>> THEN done
    ELSE SortByScore(InsertByScore(done, Head(todo)), Tail(todo))

\* The first works of the list as the loop left it
TopUnsorted(filtered, limit) ==
    [k \in 1 .. Min2(limit, Len(filtered)) |-> filtered[k].illust]

\* main.py:106-109: sort, then [x[0] for x in filtered[:push_limit]]
TopResults(filtered, limit) ==
    LET sorted == SortByScore(<<>>, filtered)
    IN  [k \in 1 .. Min2(limit, Len(sorted)) |-> sorted[k].illust]

SelectIdle ==
    /\ related_seed = 0
    /\ related_works = <<>>
    /\ blocked_artist_ids = {}
    /\ artist_scores = [a \in Artists |-> 0]
    /\ push_limit = related_push_limit
    /\ related_top = <<>>
    /\ select_pc = "idle"

\* main.py:59-109: from the related works to related_top
SelectRelated ==
    /\ select_pc = "idle"
    /\ related_top' =
          TopResults(related_filtered(related_seed, related_works, push_history,
                                      filter_config, blocked_artist_ids, xp_profile,
                                      artist_scores),
                     push_limit)
    /\ select_pc' = "done"
    /\ UNCHANGED <<related_seed, related_works, blocked_artist_ids, artist_scores,
                   push_limit>>

(***************************************************************************)
(* main_task's delivery and its record in push history (main.py:549-574,   *)
(* notifier/telegram.py:643-659)                                           *)
(***************************************************************************)
\* The configured notifiers of one delivery, at most
MaxNotifiers == 2

NotifyIdle ==
    /\ filtered_map = <<>>
    /\ all_sent_ids = {}
    /\ notifiers_left = 0
    /\ send_pc = "idle"

\* main.py:544-553: filter has kept works push history does not hold
\* (filter.py:136); each is cached, and all_sent_ids starts empty.  A
\* failure of cache_illust leaves the try (main.py:549, 595) with nothing
\* sent
StartSend ==
    /\ send_pc = "idle"
    /\ \E ids \in SUBSET {i \in IllustIds : ~is_pushed(push_history, i)} :
       \E strategy \in {"xp_search"}, n \in 1 .. MaxNotifiers, cached \in BOOLEAN :
          /\ ids # {}
          /\ filtered_map' = [i \in ids |-> Candidate(i, strategy)]
          /\ illust_cache' = [i \in IllustIds |->
                IF cached /\ i \in ids
                THEN cache_illust(illust_cache, PlainCacheCall(i)).cache[i]
                ELSE illust_cache[i]]
          /\ notifiers_left' = IF cached THEN n ELSE 0
          /\ send_pc' = IF cached THEN "sending" ELSE "done"
    /\ all_sent_ids' = {}
    /\ UNCHANGED <<push_history, cascades, origin, real_depth, strategy_stats>>

\* main.py:555-560 with TelegramNotifier.send (telegram.py:643-659): one
\* notifier's send either raises, and adds nothing, or returns the ids whose
\* _send_single returned true, any part of the filtered works
NotifierSend ==
    /\ send_pc = "sending"
    /\ notifiers_left > 0
    /\ \E raises \in BOOLEAN, sent_ids \in SUBSET DOMAIN filtered_map :
          /\ raises => sent_ids = {}
          /\ all_sent_ids' = all_sent_ids \cup sent_ids
          /\ real_depth' = [i \in IllustIds |->
                IF i \in sent_ids /\ real_depth[i] < 0 THEN 0 ELSE real_depth[i]]
          /\ origin' = [i \in IllustIds |->
                IF i \in sent_ids /\ real_depth[i] < 0
                THEN filtered_map[i].strategy ELSE origin[i]]
    /\ notifiers_left' = notifiers_left - 1
    /\ UNCHANGED <<filtered_map, send_pc, push_history, illust_cache, cascades,
                   strategy_stats>>

\* An id is recorded whatever the notifiers reported
RecordedIdsAll(sent, fmap) == DOMAIN fmap

\* main.py:565-567: `for pid in all_sent_ids: if pid in filtered_map`
RecordedIds(sent, fmap) == sent \cap DOMAIN fmap

\* main.py:568-574 over the recorded ids: a trial for each whose source is
\* one of MabSources
RECURSIVE RecordTrials(_, _, _)
RecordTrials(stats, fmap, ids) ==
    IF ids = {} THEN stats
    ELSE LET pid    == CHOOSE x \in ids : TRUE
             source == SourceOf(fmap[pid])
         IN  RecordTrials(IF source \in MabSources
                          THEN update_strategy_stats(stats, source, FALSE)
                          ELSE stats,
                          fmap, ids \ {pid})

\* main.py:562-577: after the last notifier, mark_pushed for the recorded ids
RecordSent ==
    /\ send_pc = "sending"
    /\ notifiers_left = 0
    /\ LET recorded == IF all_sent_ids # {}
                       THEN RecordedIds(all_sent_ids, filtered_map) ELSE {}
       IN  /\ push_history' = [i \in IllustIds |->
                 IF i \in recorded
                 THEN mark_pushed(push_history, i, SourceOf(filtered_map[i]))[i]
                 ELSE push_history[i]]
           /\ strategy_stats' = RecordTrials(strategy_stats, filtered_map, recorded)
    /\ send_pc' = "done"
    /\ UNCHANGED <<filtered_map, all_sent_ids, notifiers_left, illust_cache, cascades,
                   origin, real_depth>>

\* main_task returns; the next cycle filters afresh
FinishSend ==
    /\ send_pc = "done"
    /\ filtered_map' = <<>>
    /\ all_sent_ids' = {}
    /\ notifiers_left' = 0
    /\ send_pc' = "idle"
    /\ UNCHANGED <<chainVars, strategy_stats>>

(***************************************************************************)
(* _retry_on_flood (notifier/telegram.py:25-52)                            *)
(***************************************************************************)
\* The largest max_retries the model calls _retry_on_flood with (the
\* parameter's default, telegram.py:25)
MaxRetries == 3

\* What one call of coro_func can do: return a value, or raise.  type is the
\* exception's class (CancelledError is not an Exception) and flood_text
\* tells whether str(e) contains "Flood control exceeded"
Returned == [type |-> "return", flood_text |-> FALSE]
CallOutcomes ==
    {Returned}
    \cup [type : {"RetryAfter", "Exception", "CancelledError"}, flood_text : BOOLEAN]

\* Every exception is taken for flood control
caught_as_flood_any(e) == e.type # "return"

\* telegram.py:35, 39-42: the exceptions the loop sleeps on, `except
\* RetryAfter` and `except Exception` with the flood text in the message
caught_as_flood(e) ==
    \/ e.type = "RetryAfter"
    \/ e.type = "Exception" /\ e.flood_text

Pending == [kind |-> "pending", of |-> Returned]

RetryIdle ==
    /\ max_retries = 0
    /\ attempt = 0
    /\ invocations = <<>>
    /\ retry_result = Pending

\* telegram.py:32-49: one pass of `for attempt in range(max_retries)`
RetryAttempt ==
    /\ retry_result.kind = "pending"
    /\ attempt < max_retries
    /\ \E e \in CallOutcomes :
          /\ invocations' = Append(invocations, e)
          /\ IF e.type = "return"
             THEN retry_result' = [kind |-> "returned", of |-> e] /\ attempt' = attempt
             ELSE IF caught_as_flood(e)
             THEN retry_result' = retry_result /\ attempt' = attempt + 1
             ELSE retry_result' = [kind |-> "raised", of |-> e] /\ attempt' = attempt
    /\ UNCHANGED max_retries

\* telegram.py:51-52: the call after the loop, whose outcome is the caller's
FinalAttempt ==
    /\ retry_result.kind = "pending"
    /\ attempt >= max_retries
    /\ \E e \in CallOutcomes :
          /\ invocations' = Append(invocations, e)
          /\ retry_result' = [kind |-> IF e.type = "return" THEN "returned" ELSE "raised",
                              of |-> e]
    /\ UNCHANGED <<max_retries, attempt>>

(***************************************************************************)
(* TelegramNotifier._message_illust_map (notifier/telegram.py:106, 755,    *)
(* 838-847, 892, 934).  The model keeps the dict's keys in insertion order *)
(* and gives every recorded message a fresh message_id, which is the case  *)
(* in which the dict grows fastest.                                        *)
(***************************************************************************)
\* telegram.py:844 and 845
TrimAbove == 200
TrimCount == 100

\* The model stops sending after this many messages
MaxMessages == 205

ChatLists == {<<1>>, <<1, 2>>}

MapIdle ==
    /\ chat_ids = <<1>>
    /\ next_message_id = 1
    /\ message_illust_map = <<>>

TelegramIdle == RetryIdle /\ MapIdle

\* `self._message_illust_map[message_id] = illust.id` for n messages sent
\* one after the other, the first with message_id next
AddKeys(map, next, n) == map \o [k \in 1 .. n |-> next + k - 1]

\* telegram.py:844-847: above TrimAbove keys, the first TrimCount of
\* list(keys()) are deleted
TrimMap(map) ==
    IF Len(map) > TrimAbove THEN SubSeq(map, TrimCount + 1, Len(map)) ELSE map

\* _send_photo (telegram.py:809-849) when n of the chats accept the photo
send_photo(map, next, n) == TrimMap(AddKeys(map, next, n))

\* What the loop of _send_video does for one chat: the animation is sent and
\* recorded (telegram.py:881-893, 923-935), sent from the transcoded bytes
\* without a record (telegram.py:862-877), or fails, and the cover goes out
\* through _send_photo to every chat (telegram.py:940-947)
VideoOutcomes == {"recorded", "unrecorded", "cover"}

\* _send_video's loop over chat_ids from chat k on (telegram.py:860-948):
\* the map and the next message_id after it
RECURSIVE send_video(_, _, _, _)
send_video(map, next, outcomes, k) ==
    IF k > Len(outcomes) THEN [map |-> map, next |-> next]
    ELSE IF outcomes[k] = "recorded"
         THEN send_video(AddKeys(map, next, 1), next + 1, outcomes, k + 1)
    ELSE IF outcomes[k] = "unrecorded"
         THEN send_video(map, next, outcomes, k + 1)
    ELSE send_video(send_photo(map, next, Len(outcomes)), next + Len(outcomes),
                    outcomes, k + 1)

\* _send_photo for one work: any number of the chats accept it
SendPhoto ==
    /\ \E n \in 0 .. Len(chat_ids) :
          /\ next_message_id + n <= MaxMessages + 1
          /\ message_illust_map' = send_photo(message_illust_map, next_message_id, n)
          /\ next_message_id' = next_message_id + n
    /\ UNCHANGED chat_ids

\* _send_video for one work
SendVideo ==
    /\ \E outcomes \in [1 .. Len(chat_ids) -> VideoOutcomes] :
          \* nothing is transcoded before the first chat (telegram.py:857)
          /\ outcomes[1] # "unrecorded"
          /\ LET after == send_video(message_illust_map, next_message_id, outcomes, 1)
             IN  /\ after.next <= MaxMessages + 1
                 /\ message_illust_map' = after.map
                 /\ next_message_id' = after.next
    /\ UNCHANGED chat_ids

\* push_illusts (telegram.py:694-765) for the one work a cascade hands it:
\* sent to chat_ids[0] and recorded, or not sent
PushIllusts ==
    /\ \E n \in 0 .. related_push_limit :
          /\ next_message_id + n <= MaxMessages + 1
          /\ message_illust_map' = AddKeys(message_illust_map, next_message_id, n)
          /\ next_message_id' = next_message_id + n
    /\ UNCHANGED chat_ids

(***************************************************************************)
(* Specifications                                                          *)
(***************************************************************************)
InitAlloc ==
    /\ CycleIdle
    /\ ChainIdle
    /\ FilterIdle
    /\ ScoreIdle
    /\ DiscoverIdle
    /\ FetchIdle
    /\ ThresholdIdle
    /\ SelectIdle
    /\ NotifyIdle
    /\ TelegramIdle
    /\ total_limit \in 0 .. MaxTotal
    /\ mab_limits \in LimitChoices
    /\ strategy_stats \in [StatKeys -> StatChoices]
    /\ strategy_stats[UnknownSource] = <<0, 0>>
    /\ scores = NoScores
    /\ targets = NoScores
    /\ final_quotas = NoQuotas
    /\ remaining = 0
    /\ alloc_pc = "ready"

NextAlloc == SelectStrategies /\ UNCHANGED <<cycleVars, chainVars, filterVars, scoreVars, discoverVars, fetchVars, thresholdVars, selectVars, notifyVars, telegramVars>>

SpecAlloc == InitAlloc /\ [][NextAlloc]_vars

InitCycle ==
    /\ AllocIdle
    /\ CycleIdle
    /\ ChainIdle
    /\ FilterIdle
    /\ ScoreIdle
    /\ DiscoverIdle
    /\ FetchIdle
    /\ ThresholdIdle
    /\ SelectIdle
    /\ NotifyIdle
    /\ TelegramIdle

NextCycle ==
    \/ \E t \in Tasks, kind \in Triggers :
          Trigger(t, kind) /\ UNCHANGED <<allocVars, chainVars, filterVars, scoreVars, discoverVars, fetchVars, thresholdVars, selectVars, notifyVars, telegramVars>>
    \/ \E t \in Tasks : EnterCycle(t) /\ UNCHANGED <<allocVars, chainVars, filterVars, scoreVars, discoverVars, fetchVars, thresholdVars, selectVars, notifyVars, telegramVars>>
    \/ \E t \in Tasks : AdvanceCycle(t) /\ UNCHANGED <<allocVars, chainVars, filterVars, scoreVars, discoverVars, fetchVars, thresholdVars, selectVars, notifyVars, telegramVars>>
    \/ \E t \in Tasks : FailCycle(t) /\ UNCHANGED <<allocVars, chainVars, filterVars, scoreVars, discoverVars, fetchVars, thresholdVars, selectVars, notifyVars, telegramVars>>

SpecCycle == InitCycle /\ [][NextCycle]_vars

InitChain ==
    /\ AllocIdle
    /\ CycleIdle
    /\ ChainStart
    /\ FilterIdle
    /\ ScoreIdle
    /\ DiscoverIdle
    /\ FetchIdle
    /\ ThresholdIdle
    /\ SelectIdle
    /\ NotifyIdle
    /\ TelegramIdle

NextChain ==
    \/ OnFeedback /\ UNCHANGED <<total_limit, mab_limits, scores, targets,
                                 final_quotas, remaining, alloc_pc, cycleVars, filterVars,
                   scoreVars, discoverVars, fetchVars, thresholdVars, selectVars, notifyVars, telegramVars>>
    \/ PushRelatedTask /\ UNCHANGED <<total_limit, mab_limits, scores, targets,
                                      final_quotas, remaining, alloc_pc, cycleVars, filterVars,
                   scoreVars, discoverVars, fetchVars, thresholdVars, selectVars, notifyVars, telegramVars>>

SpecChain == InitChain /\ [][NextChain]_vars

\* A ContentFilter as main_task builds it (main.py:531-542), a fetched batch,
\* and a push history in which work 1 has or has not been delivered
InitFilter ==
    /\ AllocIdle
    /\ CycleIdle
    /\ \E pushed \in {{}, {1}} :
          push_history = [i \in IllustIds |->
                             IF i \in pushed THEN "xp_search" ELSE NoSource]
    /\ illust_cache = [i \in IllustIds |-> NoRow]
    /\ cascades = [c \in CascadeSlots |-> NoCascade]
    /\ origin = [i \in IllustIds |-> push_history[i]]
    /\ real_depth = [i \in IllustIds |-> IF is_pushed(push_history, i) THEN 0 ELSE -1]
    /\ filter_config \in {ContentFilter(args) : args \in FilterConfigs}
    /\ illusts \in Batches
    /\ xp_profile \in ProfileChoices
    /\ final_result = <<>>
    /\ second_result = <<>>
    /\ filter_pc = "idle"
    /\ check_result = NoCheck
    /\ ScoreIdle
    /\ DiscoverIdle
    /\ FetchIdle
    /\ ThresholdIdle
    /\ SelectIdle
    /\ NotifyIdle
    /\ TelegramIdle

NextFilter ==
    \/ Filter /\ UNCHANGED <<allocVars, cycleVars, chainVars, scoreVars, discoverVars, fetchVars, thresholdVars, selectVars, notifyVars, telegramVars>>
    \/ FilterAgain /\ UNCHANGED <<allocVars, cycleVars, chainVars, scoreVars, discoverVars, fetchVars, thresholdVars, selectVars, notifyVars, telegramVars>>

SpecFilter == InitFilter /\ [][NextFilter]_vars

InitScore ==
    /\ AllocIdle
    /\ CycleIdle
    /\ ChainIdle
    /\ filter_config = ContentFilter(DefaultFilterConfig)
    /\ illusts = <<>>
    /\ final_result = <<>>
    /\ second_result = <<>>
    /\ filter_pc = "idle"
    /\ check_result = NoCheck
    /\ xp_profile \in BuiltProfiles
    /\ score_tags \in TagLists
    /\ match_score = <<0, 1>>
    /\ adjust_count = 0
    /\ score_pc = "idle"
    /\ DiscoverIdle
    /\ FetchIdle
    /\ ThresholdIdle
    /\ SelectIdle
    /\ NotifyIdle
    /\ TelegramIdle

NextScore ==
    \/ AdjustTagWeight /\ UNCHANGED <<allocVars, cycleVars, chainVars, filter_config,
                                      illusts, final_result, second_result, filter_pc, check_result,
                                      discoverVars, fetchVars, thresholdVars, selectVars, notifyVars, telegramVars>>
    \/ CalculateMatchScore /\ UNCHANGED <<allocVars, cycleVars, chainVars, filter_config,
                                          illusts, final_result, second_result, filter_pc, check_result,
                                      discoverVars, fetchVars, thresholdVars, selectVars, notifyVars, telegramVars>>

SpecScore == InitScore /\ [][NextScore]_vars

InitDiscover ==
    /\ AllocIdle
    /\ CycleIdle
    /\ ChainIdle
    /\ FilterIdle
    /\ ScoreIdle
    /\ top_pairs \in PairLists
    /\ expand \in ExpandChoices
    /\ xp_tags \in {<<>>, <<<<"x">>>>, <<<<"x">>, <<"y">>>>}
    /\ discover_limit \in {1, 50}
    /\ combo_tasks = <<>>
    /\ single_tasks = <<>>
    /\ discover_all = <<>>
    /\ discover_result = <<>>
    /\ discover_failed = FALSE
    /\ discover_pc = "idle"
    /\ FetchIdle
    /\ ThresholdIdle
    /\ SelectIdle
    /\ NotifyIdle
    /\ TelegramIdle

NextDiscover ==
    \/ DiscoverStart /\ UNCHANGED <<allocVars, cycleVars, chainVars, filterVars, scoreVars, fetchVars, thresholdVars, selectVars, notifyVars, telegramVars>>
    \/ DiscoverGather /\ UNCHANGED <<allocVars, cycleVars, chainVars, filterVars, scoreVars, fetchVars, thresholdVars, selectVars, notifyVars, telegramVars>>
    \/ DiscoverFinish /\ UNCHANGED <<allocVars, cycleVars, chainVars, filterVars, scoreVars, fetchVars, thresholdVars, selectVars, notifyVars, telegramVars>>

SpecDiscover == InitDiscover /\ [][NextDiscover]_vars

\* discover on a pair table with more pairs than max_combo_tasks
InitCombo ==
    /\ AllocIdle
    /\ CycleIdle
    /\ ChainIdle
    /\ FilterIdle
    /\ ScoreIdle
    /\ top_pairs \in LongPairLists
    /\ expand = [t \in Range(ComboTags) \cup {LoneTag} |-> t]
    /\ xp_tags \in {<<LoneTag>>, <<ComboTags[1], LoneTag>>}
    /\ discover_limit \in {2, 50}
    /\ combo_tasks = <<>>
    /\ single_tasks = <<>>
    /\ discover_all = <<>>
    /\ discover_result = <<>>
    /\ discover_failed = FALSE
    /\ discover_pc = "idle"
    /\ FetchIdle
    /\ ThresholdIdle
    /\ SelectIdle
    /\ NotifyIdle
    /\ TelegramIdle

SpecCombo == InitCombo /\ [][NextDiscover]_vars

InitFetch ==
    /\ CycleIdle
    /\ ChainIdle
    /\ FilterIdle
    /\ ScoreIdle
    /\ total_limit \in {1, 5, MaxTotal}
    /\ mab_limits = DefaultLimits
    /\ strategy_stats = [s \in StatKeys |-> <<0, 0>>]
    /\ scores = NoScores
    /\ targets = NoScores
    /\ final_quotas = NoQuotas
    /\ remaining = 0
    /\ alloc_pc = "ready"
    /\ top_pairs \in {<<>>, << <<<<"x">>, <<"y">>>> >>}
    /\ expand = [t \in SearchTags |-> t]
    /\ xp_tags = << <<"x">> >>
    /\ discover_limit = 0
    /\ combo_tasks = <<>>
    /\ single_tasks = <<>>
    /\ discover_all = <<>>
    /\ discover_result = <<>>
    /\ discover_failed = FALSE
    /\ discover_pc = "idle"
    /\ fetch_quotas = NoQuotas
    /\ ranking_enabled \in BOOLEAN
    /\ fetch_tasks = <<>>
    /\ api_failed = {}
    /\ fetch_result = <<>>
    /\ fetch_error = "none"
    /\ fetch_pc = "idle"
    /\ ThresholdIdle
    /\ SelectIdle
    /\ NotifyIdle
    /\ TelegramIdle

FetchFrame == UNCHANGED <<allocVars, cycleVars, chainVars, filterVars, scoreVars,
                          thresholdVars, selectVars, notifyVars, telegramVars>>

FilterFrame == UNCHANGED <<allocVars, cycleVars, chainVars, scoreVars, discoverVars,
                           fetchVars, thresholdVars, selectVars, notifyVars, telegramVars>>

NextFetch ==
    \/ FetchStart /\ FetchFrame
    \/ DiscoverRuns /\ DiscoverStart /\ UNCHANGED fetchVars /\ FetchFrame
    \/ DiscoverRuns /\ DiscoverGather /\ UNCHANGED fetchVars /\ FetchFrame
    \/ DiscoverRuns /\ DiscoverFinish /\ UNCHANGED fetchVars /\ FetchFrame
    \/ \E k \in 1 .. 4 : StrategyTaskEnds(k) /\ UNCHANGED discoverVars /\ FetchFrame
    \/ FetchGather /\ UNCHANGED discoverVars /\ FetchFrame
    \/ CycleFilter /\ FilterFrame

SpecFetch == InitFetch /\ [][NextFetch]_vars

InitStats ==
    /\ AllocIdle
    /\ CycleIdle
    /\ ChainIdle
    /\ FilterIdle
    /\ ScoreIdle
    /\ DiscoverIdle
    /\ FetchIdle
    /\ ThresholdIdle
    /\ SelectIdle
    /\ NotifyIdle
    /\ TelegramIdle

StatsFrame == UNCHANGED <<total_limit, mab_limits, scores, targets, final_quotas,
                          remaining, alloc_pc, cycleVars, filterVars, scoreVars,
                          discoverVars, fetchVars, thresholdVars, selectVars, notifyVars, telegramVars>>

NextStats ==
    \/ StatsBelowCap /\ DeliverOne /\ StatsFrame
    \/ StatsBelowCap /\ OnFeedback /\ StatsFrame
    \/ CascadeFindsNothing /\ StatsFrame
    \/ StatsBelowCap /\ UpdateStrategyStats /\ StatsFrame
    \/ ClearStrategyStats /\ StatsFrame

SpecStats == InitStats /\ [][NextStats]_vars

\* Discovery cycles that deliver, feedback events and the cascades the likes
\* start; no other writer of strategy_stats
NextAttribution ==
    \/ DeliverOne /\ StatsFrame
    \/ OnFeedback /\ StatsFrame
    \/ CascadeOfTwo /\ StatsFrame

SpecAttribution == InitStats /\ [][NextAttribution]_vars

\* A ContentFilter with or without a configured blacklist, a batch, and
\* no push history
InitBlacklist ==
    /\ AllocIdle
    /\ CycleIdle
    /\ ChainIdle
    /\ ScoreIdle
    /\ DiscoverIdle
    /\ FetchIdle
    /\ ThresholdIdle
    /\ SelectIdle
    /\ NotifyIdle
    /\ TelegramIdle
    /\ filter_config \in {ContentFilter(DefaultFilterConfig),
                          ContentFilter([DefaultFilterConfig EXCEPT !.blacklist_tags = {"A"}])}
    /\ illusts \in Batches
    /\ xp_profile = [t \in {"a", "b"} |-> IF t = "a" THEN 2 ELSE 1]
    /\ final_result = <<>>
    /\ second_result = <<>>
    /\ filter_pc = "idle"
    /\ check_result = NoCheck

BlacklistFrame == UNCHANGED <<allocVars, cycleVars, chainVars, scoreVars, discoverVars,
                              fetchVars, thresholdVars, selectVars, notifyVars, telegramVars>>

NextBlacklist ==
    \/ AddToBlacklist /\ BlacklistFrame
    \/ CheckIllust /\ BlacklistFrame
    \/ Filter /\ BlacklistFrame

SpecBlacklist == InitBlacklist /\ [][NextBlacklist]_vars

\* filter and check_illust under every maturity mode, with and without a
\* profile and a pushed work
InitAdmits ==
    /\ AllocIdle
    /\ CycleIdle
    /\ \E pushed \in {{}, {1}} :
          push_history = [i \in IllustIds |->
                             IF i \in pushed THEN "xp_search" ELSE NoSource]
    /\ illust_cache = [i \in IllustIds |-> NoRow]
    /\ cascades = [c \in CascadeSlots |-> NoCascade]
    /\ origin = [i \in IllustIds |-> push_history[i]]
    /\ real_depth = [i \in IllustIds |-> IF is_pushed(push_history, i) THEN 0 ELSE -1]
    /\ ScoreIdle
    /\ DiscoverIdle
    /\ FetchIdle
    /\ ThresholdIdle
    /\ SelectIdle
    /\ NotifyIdle
    /\ TelegramIdle
    /\ filter_config \in {ContentFilter(args) : args \in AdmitConfigs}
    /\ illusts \in AdmitBatches
    /\ xp_profile \in {NoProfile, [t \in {"a", "b"} |-> IF t = "a" THEN 2 ELSE 1]}
    /\ final_result = <<>>
    /\ second_result = <<>>
    /\ filter_pc = "idle"
    /\ check_result = NoCheck

NextAdmits ==
    \/ CheckIllust /\ BlacklistFrame
    \/ Filter /\ BlacklistFrame

SpecAdmits == InitAdmits /\ [][NextAdmits]_vars

\* Work 1 was delivered by a cycle, with the source a candidate without a
\* source attribute gets; SiblingSlots cascades can run, beside one
\* invocation of main_task
InitCascade ==
    /\ AllocIdle
    /\ CycleIdle
    /\ push_history = [i \in IllustIds |-> IF i = 1 THEN UnknownSource ELSE NoSource]
    /\ illust_cache = [i \in IllustIds |->
                          IF i = 1 THEN cache_illust([j \in IllustIds |-> NoRow],
                                                     PlainCacheCall(1)).cache[1]
                          ELSE NoRow]
    /\ cascades = [c \in SiblingSlots |-> NoCascade]
    /\ origin = [i \in IllustIds |-> IF i = 1 THEN "xp_search" ELSE NoSource]
    /\ real_depth = [i \in IllustIds |-> IF i = 1 THEN 0 ELSE -1]
    /\ FilterIdle
    /\ ScoreIdle
    /\ DiscoverIdle
    /\ FetchIdle
    /\ ThresholdIdle
    /\ SelectIdle
    /\ NotifyIdle
    /\ TelegramIdle

CascadeFrame == UNCHANGED <<total_limit, mab_limits, scores, targets, final_quotas,
                            remaining, alloc_pc, filterVars, scoreVars, discoverVars,
                            fetchVars, thresholdVars, selectVars, notifyVars, telegramVars>>

NextCascade ==
    \/ OnFeedback /\ UNCHANGED cycleVars /\ CascadeFrame
    \/ CascadeOfTwo /\ UNCHANGED cycleVars /\ CascadeFrame
    \/ \E kind \in Triggers :
          Trigger(1, kind) /\ UNCHANGED <<chainVars, strategy_stats>> /\ CascadeFrame
    \/ EnterCycle(1) /\ UNCHANGED <<chainVars, strategy_stats>> /\ CascadeFrame
    \/ AdvanceCycle(1) /\ UNCHANGED <<chainVars, strategy_stats>> /\ CascadeFrame
    \/ FailCycle(1) /\ UNCHANGED <<chainVars, strategy_stats>> /\ CascadeFrame

SpecCascade == InitCascade /\ [][NextCascade]_vars

InitThreshold ==
    /\ AllocIdle
    /\ CycleIdle
    /\ ChainIdle
    /\ FilterIdle
    /\ ScoreIdle
    /\ DiscoverIdle
    /\ FetchIdle
    /\ ThresholdIdle
    /\ SelectIdle
    /\ NotifyIdle
    /\ TelegramIdle

ThresholdFrame == UNCHANGED <<allocVars, cycleVars, chainVars, filterVars, scoreVars,
                              discoverVars, fetchVars, selectVars, notifyVars, telegramVars>>

NextThreshold ==
    \/ GetThresholdStarts /\ ThresholdFrame
    \/ GetThresholdResumes /\ ThresholdFrame

SpecThreshold == InitThreshold /\ [][NextThreshold]_vars

\* A cascade for seed 1 or 2 that has its related works, under the two
\* filter configurations a cascade can build, with and without a pushed
\* work, a blocked artist, a profile and an artist score
InitSelect ==
    /\ AllocIdle
    /\ CycleIdle
    /\ \E pushed \in {{}, {3}} :
          push_history = [i \in IllustIds |->
                             IF i \in pushed THEN "xp_search" ELSE NoSource]
    /\ illust_cache = [i \in IllustIds |-> NoRow]
    /\ cascades = [c \in CascadeSlots |-> NoCascade]
    /\ origin = [i \in IllustIds |-> push_history[i]]
    /\ real_depth = [i \in IllustIds |-> IF is_pushed(push_history, i) THEN 0 ELSE -1]
    /\ filter_config \in
          {ContentFilter(DefaultFilterConfig),
           ContentFilter([DefaultFilterConfig EXCEPT !.blacklist_tags = {"c"},
                                                     !.r18_mode = "safe"])}
    /\ illusts = <<>>
    /\ xp_profile \in {NoProfile, [t \in {"a", "b"} |-> IF t = "a" THEN 2 ELSE 1]}
    /\ final_result = <<>>
    /\ second_result = <<>>
    /\ filter_pc = "idle"
    /\ check_result = NoCheck
    /\ ScoreIdle
    /\ DiscoverIdle
    /\ FetchIdle
    /\ ThresholdIdle
    /\ related_seed \in {1, 2}
    /\ related_works \in RelatedLists
    /\ blocked_artist_ids \in {{}, {2}}
    /\ artist_scores \in {[a \in Artists |-> 0], [a \in Artists |-> IF a = 2 THEN 2 ELSE 0]}
    /\ push_limit \in {1, 2}
    /\ related_top = <<>>
    /\ select_pc = "idle"
    /\ NotifyIdle
    /\ TelegramIdle

NextSelect ==
    SelectRelated /\ UNCHANGED <<allocVars, cycleVars, chainVars, filterVars, scoreVars,
                                 discoverVars, fetchVars, thresholdVars, notifyVars, telegramVars>>

SpecSelect == InitSelect /\ [][NextSelect]_vars

\* Deliveries of the cycle beside feedback and cascades: work 1 was
\* delivered and recorded by an earlier cycle
InitRecord ==
    /\ AllocIdle
    /\ CycleIdle
    /\ push_history = [i \in IllustIds |-> IF i = 1 THEN UnknownSource ELSE NoSource]
    /\ illust_cache = [i \in IllustIds |->
                          IF i = 1 THEN cache_illust([j \in IllustIds |-> NoRow],
                                                     PlainCacheCall(1)).cache[1]
                          ELSE NoRow]
    /\ cascades = [c \in SiblingSlots |-> NoCascade]
    /\ origin = [i \in IllustIds |-> IF i = 1 THEN "xp_search" ELSE NoSource]
    /\ real_depth = [i \in IllustIds |-> IF i = 1 THEN 0 ELSE -1]
    /\ FilterIdle
    /\ ScoreIdle
    /\ DiscoverIdle
    /\ FetchIdle
    /\ ThresholdIdle
    /\ SelectIdle
    /\ NotifyIdle
    /\ TelegramIdle

RecordFrame == UNCHANGED <<total_limit, mab_limits, scores, targets, final_quotas,
                           remaining, alloc_pc, cycleVars, filterVars, scoreVars,
                           discoverVars, fetchVars, thresholdVars, selectVars,
                           telegramVars>>

NextRecord ==
    \/ StartSend /\ RecordFrame
    \/ NotifierSend /\ RecordFrame
    \/ RecordSent /\ RecordFrame
    \/ FinishSend /\ RecordFrame
    \/ OnFeedback /\ UNCHANGED cycleVars /\ CascadeFrame
    \/ CascadeOfTwo /\ UNCHANGED cycleVars /\ CascadeFrame

SpecRecord == InitRecord /\ [][NextRecord]_vars

TelegramFrame == UNCHANGED <<allocVars, cycleVars, chainVars, filterVars, scoreVars,
                             discoverVars, fetchVars, thresholdVars, selectVars,
                             notifyVars>>

\* Calls of _retry_on_flood with max_retries from 0 to MaxRetries
InitRetry ==
    /\ AllocIdle
    /\ CycleIdle
    /\ ChainIdle
    /\ FilterIdle
    /\ ScoreIdle
    /\ DiscoverIdle
    /\ FetchIdle
    /\ ThresholdIdle
    /\ SelectIdle
    /\ NotifyIdle
    /\ max_retries \in 0 .. MaxRetries
    /\ attempt = 0
    /\ invocations = <<>>
    /\ retry_result = Pending
    /\ MapIdle

NextRetry ==
    \/ RetryAttempt /\ UNCHANGED <<chat_ids, next_message_id, message_illust_map>>
                    /\ TelegramFrame
    \/ FinalAttempt /\ UNCHANGED <<chat_ids, next_message_id, message_illust_map>>
                    /\ TelegramFrame

\* The event loop resumes the coroutine when coro_func or the sleep is over
SpecRetry == InitRetry /\ [][NextRetry]_vars /\ WF_vars(NextRetry)

\* The sends of one TelegramNotifier, in any order
InitMap ==
    /\ AllocIdle
    /\ CycleIdle
    /\ ChainIdle
    /\ FilterIdle
    /\ ScoreIdle
    /\ DiscoverIdle
    /\ FetchIdle
    /\ ThresholdIdle
    /\ SelectIdle
    /\ NotifyIdle
    /\ RetryIdle
    /\ chat_ids \in ChatLists
    /\ next_message_id = 1
    /\ message_illust_map = <<>>

NextMap ==
    \/ SendPhoto /\ UNCHANGED <<max_retries, attempt, invocations, retry_result>>
                 /\ TelegramFrame
    \/ SendVideo /\ UNCHANGED <<max_retries, attempt, invocations, retry_result>>
                 /\ TelegramFrame
    \/ PushIllusts /\ UNCHANGED <<max_retries, attempt, invocations, retry_result>>
                   /\ TelegramFrame

SpecMap == InitMap /\ [][NextMap]_vars

(***************************************************************************)
(* Properties of main_task                                                 *)
(***************************************************************************)
\* The invocations that are between the start of profile building and the
\* end of push-history recording
InCycle == {t \in Tasks : task_pc[t] \in Range(CycleStages)}

\* C1: at most one invocation of main_task is inside the discovery-to-delivery
\* cycle at any time.
CycleMutualExclusion == Cardinality(InCycle) <= 1

(***************************************************************************)
(* Properties of the chain reaction                                        *)
(***************************************************************************)
\* C6: every candidate a cascade delivered sits at a chain depth of at most
\* max_chain_depth.
ChainDepthBounded ==
    \A i \in IllustIds : real_depth[i] <= max_chain_depth

\* C7: along a lineage at most max_chain_depth cascade instances are
\* launched: no created cascade is the (max_chain_depth+1)-th of its lineage.
CascadeLineageBounded ==
    \A c \in CascadeSlots :
        cascades[c].pc # "free" => cascades[c].lineage <= max_chain_depth

(***************************************************************************)
(* Properties of select_strategies                                         *)
(***************************************************************************)
QuotaSum(q) == SumSeq([i \in DOMAIN strategies |->
                          IF strategies[i] \in DOMAIN q THEN q[strategies[i]] ELSE 0])

\* The range [floor(T*min), floor(T*max)] can hold a split of T
Feasible(T, lim) ==
    /\ Len(strategies) * QuotaCount(T, lim.min_quota) <= T
    /\ T <= Len(strategies) * QuotaCount(T, lim.max_quota)

\* The floors alone exceed the budget
Degenerate(T, lim) == Len(strategies) * QuotaCount(T, lim.min_quota) > T

\* The pool step 2 left for step 3
PoolAfterProportional ==
    LET s1 == AllocFloors(total_limit, mab_limits)
    IN  IF s1.remaining > 0
        THEN AllocProportional(s1, 1, total_limit, mab_limits, targets).remaining
        ELSE s1.remaining

AllocQuotaInRange ==
    (alloc_pc = "done" /\ mab_limits.min_quota <= mab_limits.max_quota)
    => \A s \in DOMAIN final_quotas :
          /\ QuotaCount(total_limit, mab_limits.min_quota) <= final_quotas[s]
          /\ final_quotas[s] <= QuotaCount(total_limit, mab_limits.max_quota)

\* A call where one strategy's proportional target lies above the ceiling
\* and the strategy was stopped at the ceiling, while another one stayed at
\* the floor.
AllocQuotaInRangeWitness ==
    /\ alloc_pc = "done"
    /\ \E s, t \in DOMAIN final_quotas :
          /\ targets[s] > QuotaCount(total_limit, mab_limits.max_quota)
          /\ final_quotas[s] = QuotaCount(total_limit, mab_limits.max_quota)
          /\ final_quotas[t] = QuotaCount(total_limit, mab_limits.min_quota)
          /\ final_quotas[t] < final_quotas[s]

\* C4: when the minimum floors add up to more than total_limit,
\* select_strategies returns without raising and the quotas sum to at most
\* total_limit.
AllocDegenerateWithinBudget ==
    (alloc_pc # "ready" /\ Degenerate(total_limit, mab_limits))
    => (alloc_pc = "done" /\ QuotaSum(final_quotas) <= total_limit)

\* The strategies of the quota map as the design names them
DesignStrategies == {"xp_search", "subscription", "ranking", "related"}

\* C5: the returned map has a quota for each of xp_search, subscription,
\* ranking and related, each at least floor(total_limit*min_quota).
AllocCoversFourStrategies ==
    alloc_pc = "done"
    => \A s \in DesignStrategies :
          /\ s \in DOMAIN final_quotas
          /\ final_quotas[s] >= QuotaCount(total_limit, mab_limits.min_quota)

(***************************************************************************)
(* Properties of ContentFilter.filter                                      *)
(***************************************************************************)
ResultIds == {final_result[k].id : k \in 1 .. Len(final_result)}

ArtistCount(result, artist) ==
    Cardinality({k \in 1 .. Len(result) : result[k].user_id = artist})

\* C8: no work that push_history holds when filter examines it is in the
\* list filter returns.
FilterDropsPushed ==
    filter_pc = "done" =>
        \A k \in 1 .. Len(final_result) : ~(push_history[final_result[k].id] # NoSource)

\* A pushed work that passes every other test was in the batch, next to a
\* work that was returned
FilterDropsPushedWitness ==
    /\ filter_pc = "done"
    /\ \E k \in 1 .. Len(illusts) :
          /\ push_history[illusts[k].id] # NoSource
          /\ PassesHardFilters(filter_config, illusts[k])
    /\ Len(final_result) >= 1

\* C9: for every artist, the number of that artist's works in the returned
\* list is at most max_per_artist.
FilterArtistCap ==
    filter_pc = "done" =>
        \A a \in Artists : ArtistCount(final_result, a) <= filter_config.max_per_artist

\* The sorted list held more works of one artist than the cap, and the
\* returned list holds exactly the cap
FilterArtistCapWitness ==
    /\ filter_pc = "done"
    /\ \E a \in Artists :
          LET sorted == SortedResult(push_history, filter_config, illusts, xp_profile)
          IN  /\ Cardinality({k \in 1 .. Len(sorted) : sorted[k].illust.user_id = a})
                    > filter_config.max_per_artist
              /\ ArtistCount(final_result, a) = filter_config.max_per_artist
              /\ filter_config.max_per_artist >= 1

\* C10: the returned list has at most daily_limit works and no two of them
\* have the same id.
FilterSizeAndUnique ==
    filter_pc = "done" =>
        /\ Len(final_result) <= filter_config.daily_limit
        /\ \A j, k \in 1 .. Len(final_result) :
              final_result[j].id = final_result[k].id => j = k

\* The batch repeated an id among the works that pass the first stage, and
\* the diversity stage left more works than daily_limit
FilterSizeAndUniqueWitness ==
    /\ filter_pc = "done"
    /\ LET staged == StageResult(push_history, filter_config, illusts)
       IN  \E j, k \in 1 .. Len(staged) : j # k /\ staged[j].id = staged[k].id
    /\ Len(DiverseResult(push_history, filter_config, illusts, xp_profile))
          > filter_config.daily_limit
    /\ Len(final_result) = filter_config.daily_limit
    /\ filter_config.daily_limit >= 1

IdsOf(result) == [k \in 1 .. Len(result) |-> result[k].id]

\* C11: filter applied to its own output, with the push history unchanged,
\* returns the same works in the same order.
FilterIdempotent ==
    filter_pc = "again" => IdsOf(second_result) = IdsOf(final_result)

(***************************************************************************)
(* Properties of calculate_match_score                                     *)
(***************************************************************************)
\* C12: for a non-empty tag list and a non-empty profile, whatever weights
\* feedback has left in the profile, the score lies in [0, 1].
MatchScoreInUnitRange ==
    score_pc = "done" /\ Len(score_tags) > 0 /\ DOMAIN xp_profile # {} =>
        /\ match_score[1] >= 0
        /\ match_score[1] <= match_score[2]

\* The tags of the scored work that the profile holds, and the reference
\* values for a single match
RefMatched == {k \in 1 .. Len(score_tags) : Lower(score_tags[k]) \in DOMAIN xp_profile}
RefMaxWeight == sorted_weights(xp_profile, DOMAIN xp_profile)[1]
RefThreshold ==
    LET sw == sorted_weights(xp_profile, DOMAIN xp_profile)
    IN  IF Len(sw) >= 5 THEN 10 * sw[(Len(sw) \div 5) + 1] ELSE 8 * sw[1]

\* C13: the score is the reference formula: 0 when no tag matches, otherwise
\* min(base_score + quantity_bonus + quality_bonus, 1) where quantity_bonus
\* grows with the number of matches and reaches its ceiling 0.3 only near 5
\* matches; so with one match and a score below 1, the score is below
\* base_score + 0.3 + quality_bonus.
MatchScoreReference ==
    score_pc = "done" /\ DOMAIN xp_profile # {} =>
        /\ RefMatched = {} => match_score[1] = 0
        /\ Cardinality(RefMatched) = 1 /\ RefMaxWeight > 0
              /\ match_score[1] < match_score[2] =>
              LET k == CHOOSE j \in RefMatched : TRUE
                  w == xp_profile[Lower(score_tags[k])]
                  quality == IF 10 * w >= RefThreshold THEN 1 ELSE 0
              IN  FracLess(match_score,
                           <<20 * w + 6 * RefMaxWeight + quality * RefMaxWeight,
                             20 * RefMaxWeight>>)

(***************************************************************************)
(* Properties of discover                                                  *)
(***************************************************************************)
\* C14: no combination search is launched for a pair of tags of which one
\* expanded query is a substring of the other (equal queries included).
NoSubstringPairSearched ==
    \A k \in 1 .. Len(combo_tasks) :
        LET q1 == expand[combo_tasks[k][1]]
            q2 == expand[combo_tasks[k][2]]
        IN  ~IsSubstring(q1, q2) /\ ~IsSubstring(q2, q1)

(***************************************************************************)
(* Properties of fetch_content                                             *)
(***************************************************************************)
\* The works the awaitables produced, tagged as fetch_content tags them
MergedWorks ==
    Tagged(ListOrEmpty(1), "xp_search") \o Tagged(ListOrEmpty(2), "subscription")
    \o Tagged(ListOrEmpty(3), "ranking") \o Tagged(ListOrEmpty(4), "related")

AnyApiFailure == api_failed # {} \/ discover_failed

\* C15: when a content-API call made for one strategy has raised (and no
\* persistence call has), fetch_content does not raise: once it has ended it
\* has returned, and what it returned are the works of the calls that did
\* not fail, every failing call contributing nothing.
FetchReturnsDespiteApiFailure ==
    (AnyApiFailure /\ discover_pc # "raised" /\ fetch_pc \in {"returned", "raised"}) =>
        /\ fetch_pc = "returned"
        /\ fetch_result = MergedWorks

(***************************************************************************)
(* Properties of strategy_stats                                            *)
(***************************************************************************)
\* C16: after any sequence of deliveries, likes and update_strategy_stats
\* calls, every strategy row has 0 <= success_count <= total_count.
SuccessWithinTotal ==
    \A s \in StatKeys :
        /\ 0 <= strategy_stats[s][1]
        /\ strategy_stats[s][1] <= strategy_stats[s][2]

\* A strategy whose delivered work was liked, and which had another trial
SuccessWithinTotalWitness ==
    \E s \in StatKeys, i \in IllustIds :
        /\ push_history[i] = s
        /\ strategy_stats[s][1] >= 1
        /\ strategy_stats[s][2] > strategy_stats[s][1]

(***************************************************************************)
(* Properties of the blacklist                                             *)
(***************************************************************************)
HardBlacklist == {"r-18g", "guro", "gore"}

HasHardTag(illust) ==
    \E k \in 1 .. Len(illust.tags) : Lower(illust.tags[k]) \in HardBlacklist

\* C17: after any number of add_to_blacklist calls the hard-coded tags
\* r-18g, guro and gore are still in the blacklist; filter returns no work
\* that carries one of them and check_illust accepts none.
HardBlacklistKept ==
    /\ HardBlacklist \subseteq filter_config.blacklist_tags
    /\ filter_pc = "done" =>
          \A k \in 1 .. Len(final_result) : ~HasHardTag(final_result[k])
    /\ check_result # NoCheck =>
          (HasHardTag(check_result.illust) => ~check_result.accepted)

\* After add_to_blacklist calls, a batch with a gore work was filtered to a
\* non-empty list and check_illust was asked about the gore work
HardBlacklistKeptWitness ==
    /\ "c" \in filter_config.blacklist_tags
    /\ filter_pc = "done"
    /\ final_result # <<>>
    /\ \E k \in 1 .. Len(illusts) : HasHardTag(illusts[k])
    /\ check_result # NoCheck
    /\ HasHardTag(check_result.illust)

(***************************************************************************)
(* Properties of a failing cascade                                         *)
(***************************************************************************)
\* C18: a cascade that fails at any step ends only itself: whenever a
\* push_related_task ends, it has returned or has logged the exception (no
\* exception leaves it), and the step that ends it changes no other cascade
\* and nothing of a running cycle.
CascadeFailureContained ==
    [][\A c \in DOMAIN cascades :
          (cascades[c].pc = "created" /\ cascades'[c].pc = "free") =>
              /\ cascades'[c].ending \in {"returned", "failed"}
              /\ \A d \in DOMAIN cascades \ {c} : cascades'[d] = cascades[d]
              /\ UNCHANGED cycleVars]_vars

\* A cascade has failed while recording the chain metadata of the work it
\* delivered, another one is still to run and a cycle is in one of its stages
CascadeFailureContainedWitness ==
    \E c, d \in DOMAIN cascades :
        /\ cascades[c].ending = "failed"
        /\ cascades[c].step = "cache_illust"
        /\ real_depth[2] >= 1
        /\ cascades[d].pc = "created"
        /\ task_pc[1] \in Range(CycleStages)

(***************************************************************************)
(* Properties of the fetch-then-filter order                               *)
(***************************************************************************)
\* C19: in one cycle filter begins only after every fetch task that
\* fetch_content started has completed, returned or failed; the batch it
\* scores is the complete merged list.
FilterAfterAllFetches ==
    filter_pc # "idle" =>
        /\ \A k \in 1 .. Len(fetch_tasks) : TaskView(k).status \in {"returned", "raised"}
        /\ illusts = AsBatch(MergedWorks)

\* filter has run on a batch that two strategies contributed to, after the
\* four awaitables had ended
FilterAfterAllFetchesWitness ==
    /\ filter_pc = "done"
    /\ Len(fetch_tasks) = 4
    /\ \E k \in 1 .. Len(fetch_result) : fetch_result[k].strategy = "xp_search"
    /\ \E k \in 1 .. Len(fetch_result) : fetch_result[k].strategy = "subscription"
    /\ Len(final_result) >= 2

(***************************************************************************)
(* Properties of the chain metadata                                        *)
(***************************************************************************)
\* C20: after a cascade seeded by a work of stored depth d delivered a work,
\* the record get_cached_illust returns for that work has chain_depth d + 1
\* (here the depth of the delivery in its lineage), the seed as
\* chain_parent_id and the message reference, and push history has the work
\* with source 'related'.
ChainMetadataRecorded ==
    \A i \in IllustIds :
        real_depth[i] >= 1 =>
            LET row == get_cached_illust(illust_cache, i)
            IN  /\ row # NoRow
                /\ {"chain_depth", "chain_parent_id", "chain_msg_id"} \subseteq DOMAIN row
                /\ DictGet(row, "chain_depth", 0) = real_depth[i]
                /\ get_push_source(push_history, i) = "related"

(***************************************************************************)
(* Properties of the attribution of deliveries and likes                   *)
(***************************************************************************)
\* The works a cycle delivered that strategy s had produced
DeliveredOf(s) == {i \in IllustIds : origin[i] = s}

\* C21: after any sequence of cycles and feedback events the total_count of
\* each of xp_search, subscription and ranking is the number of delivered
\* works that strategy produced; a feedback event does not change it.
TotalCountsDeliveries ==
    \A s \in MabSources : strategy_stats[s][2] = Cardinality(DeliveredOf(s))

\* C22: a like on a work a cycle delivered adds one to the success_count of
\* the strategy that produced the work and changes no other strategy's
\* record; a like on a work a cascade delivered changes no record.  (In the
\* model every like that is taken starts a cascade on the liked work.)
LikeCreditsProducer ==
    [][\A c \in DOMAIN cascades :
          (cascades[c].pc = "free" /\ cascades'[c].pc = "created") =>
              LET s == origin[cascades'[c].seed]
              IN  IF s \in MabSources
                  THEN /\ strategy_stats'[s][1] = strategy_stats[s][1] + 1
                       /\ \A t \in StatKeys \ {s} : strategy_stats'[t] = strategy_stats[t]
                  ELSE strategy_stats' = strategy_stats]_vars

(***************************************************************************)
(* Properties of fetch_content's result                                    *)
(***************************************************************************)
\* The strategy whose calls give the work: discover numbers its works from
\* 21, check_subscriptions gives 31 and 32, the ranking 41, the related
\* lookup 51
ProducerOf(id) ==
    CASE id \div 10 = 2 -> "xp_search"
      [] id \div 10 = 3 -> "subscription"
      [] id \div 10 = 4 -> "ranking"
      [] OTHER -> "related"

\* C23: for every quota map select_strategies returns, also one with quota
\* 0 for xp_search or ranking, fetch_content returns normally (no
\* persistence call failing) and every work of its result carries the
\* strategy whose fetch produced it.
FetchReturnsTagged ==
    (fetch_pc \in {"returned", "raised"} /\ discover_pc # "raised") =>
        /\ fetch_pc = "returned"
        /\ \A k \in 1 .. Len(fetch_result) :
              fetch_result[k].strategy = ProducerOf(fetch_result[k].id)

(***************************************************************************)
(* Properties of _get_dynamic_threshold                                    *)
(***************************************************************************)
\* C24: for every tag, one fetcher issues at most one top-1 popularity search,
\* however the concurrently running search tasks interleave
OneLookupPerTag == \A t \in ThresholdTags : lookups[t] <= 1

\* The ceiling a returned call worked from: the cached count on a hit, the
\* count of the work found, 1000 when the search raised or found nothing
CeilingOf(call) ==
    IF call.outcome = "found" \/ call.hit THEN call.max_bookmarks ELSE 1000

\* C25: _get_dynamic_threshold never raises; what it returns is
\* min(base, max(100, floor(ceiling * 0.05))), the ceiling being the bookmark
\* count of the top-1 result, or 1000 when the search failed or found
\* nothing; the result never exceeds base
DynamicThresholdBounded ==
    \A c \in ThresholdCalls :
        /\ threshold_calls[c].pc # "raised"
        /\ threshold_calls[c].pc = "returned" =>
              LET call == threshold_calls[c]
                  twentieth == (CeilingOf(call) * 5) \div 100
                  floored == IF twentieth >= 100 THEN twentieth ELSE 100
              IN  /\ call.result = (IF call.base <= floored THEN call.base
                                    ELSE floored)
                  /\ call.result <= call.base

\* A search that raised, one that found nothing and one that found a popular
\* work have all returned a threshold
DynamicThresholdBoundedWitness ==
    \E c, d \in ThresholdCalls :
        /\ threshold_calls[c].pc = "returned"
        /\ threshold_calls[c].outcome = "raise"
        /\ threshold_calls[c].result = 100
        /\ threshold_calls[d].pc = "returned"
        /\ threshold_calls[d].outcome = "found"
        /\ threshold_calls[d].max_bookmarks = 2020
        /\ threshold_calls[d].result = 101

(***************************************************************************)
(* Properties of the remainder pass of select_strategies                   *)
(***************************************************************************)
\* C26: when select_strategies returns, either the unassigned pool is 0 or
\* every strategy's quota equals its cap floor(total_limit * max_quota)
RemainderExhausted ==
    alloc_pc = "done" =>
        \/ remaining = 0
        \/ \A s \in Range(strategies) :
               final_quotas[s] = QuotaCount(total_limit, mab_limits.max_quota)

(***************************************************************************)
(* Properties of the quotas in fetch_content                               *)
(***************************************************************************)
\* The candidates of the merged result that carry strategy s
ContributedBy(s) == {k \in 1 .. Len(fetch_result) : fetch_result[k].strategy = s}

\* C27: every strategy contributes at most its quota of the returned map to
\* the merged result of fetch_content
ContributionWithinQuota ==
    fetch_pc = "returned" =>
        \A s \in {"xp_search", "subscription", "ranking", "related"} :
            Cardinality(ContributedBy(s)) <= DictGet(fetch_quotas, s, 0)

(***************************************************************************)
(* Properties of the searches of discover                                  *)
(***************************************************************************)
\* C28: one discover call launches at most 20 combination searches and none
\* for an unordered tag pair it has already launched one for
ComboSearchesBounded ==
    /\ Len(combo_tasks) <= 20
    /\ \A j, k \in 1 .. Len(combo_tasks) :
          j < k => {combo_tasks[j][1], combo_tasks[j][2]}
                       # {combo_tasks[k][1], combo_tasks[k][2]}

\* The pair table held 21 unordered pairs, each in both orders, and twenty
\* searches were launched
ComboSearchesBoundedWitness ==
    /\ discover_pc = "combo"
    /\ Len(top_pairs) = Len(OrderedPairs)
    /\ \E j, k \in 1 .. Len(top_pairs) :
          j < k /\ top_pairs[k] = <<top_pairs[j][2], top_pairs[j][1]>>
    /\ Len(combo_tasks) = 20

\* The tags the combination pass has put into used_tags
TagsUsedByCombos == UNION ComboLoop(top_pairs, expand, <<>>, {}).used

\* C29: the single-tag fallback runs only when the combination searches gave
\* fewer candidates than the limit; no tag is searched by two fallback tasks
\* and no fallback task searches a tag used by the combination pass
FallbackWithoutReplacement ==
    discover_pc = "done" =>
        /\ single_tasks # <<>> =>
              Cardinality({k \in 1 .. Len(discover_all) :
                              discover_all[k].id <= max_combo_tasks}) < discover_limit
        /\ \A j, k \in 1 .. Len(single_tasks) : j < k => single_tasks[j] # single_tasks[k]
        /\ \A k \in 1 .. Len(single_tasks) : single_tasks[k] \notin TagsUsedByCombos

RECURSIVE IsSubsequence(_, _)
IsSubsequence(a, b) ==
    IF a = <<>> THEN TRUE
    ELSE IF b = <<>> THEN FALSE
    ELSE IF Head(a) = Head(b) THEN IsSubsequence(Tail(a), Tail(b))
    ELSE IsSubsequence(a, Tail(b))

\* C30: what discover returns holds at most 3 candidates of one artist and at
\* most limit candidates, and it is a subsequence of the combination results
\* followed by the fallback results
DiscoverResultCapped ==
    discover_pc = "done" =>
        /\ \A a \in FoundArtists :
              Cardinality({k \in 1 .. Len(discover_result) :
                              discover_result[k].user_id = a}) <= 3
        /\ Len(discover_result) <= discover_limit
        /\ IsSubsequence(discover_result, discover_all)

\* Twenty searches found works of two artists, the limit was 50 and three of
\* each artist were returned, the fourth work found not among them
DiscoverResultCappedWitness ==
    /\ discover_pc = "done"
    /\ discover_limit = 50
    /\ Len(discover_all) > 6
    /\ Len(discover_result) = 6
    /\ discover_result[4].id = 4
    /\ \A k \in 1 .. Len(discover_result) : discover_result[k].id # 7

(***************************************************************************)
(* Properties of filter without a profile                                  *)
(***************************************************************************)
\* The works of the batch that pass the push-history test and the hard
\* filters, each id once
HardSurvivors == UniqueById(StageFilter(push_history, filter_config, illusts), {})

\* C31: with a missing or empty profile filter drops no candidate for its
\* score (a survivor of the hard filters is missing from the result only
\* where the artist cap or the daily limit is exhausted), and match_score is
\* artist_boost for the works of subscribed artists and 0 for the others
NoProfileScoring ==
    (filter_pc = "done" /\ DOMAIN xp_profile = {}) =>
        /\ \A k \in 1 .. Len(final_result) :
              IF final_result[k].user_id \in filter_config.subscribed_artists
              THEN final_result[k].match_score[1] * 10
                      = filter_config.artist_boost * final_result[k].match_score[2]
              ELSE final_result[k].match_score[1] = 0
        /\ \A k \in 1 .. Len(HardSurvivors) :
              \/ HardSurvivors[k].id \in ResultIds
              \/ Len(final_result) = filter_config.daily_limit
              \/ ArtistCount(final_result, HardSurvivors[k].user_id)
                    = filter_config.max_per_artist

\* Without a profile and with a positive min_match_score, a work of a
\* subscribed artist and a work of another artist were both returned
NoProfileScoringWitness ==
    /\ filter_pc = "done"
    /\ DOMAIN xp_profile = {}
    /\ filter_config.min_match_score > 0
    /\ \E j, k \in 1 .. Len(final_result) :
          /\ final_result[j].user_id \in filter_config.subscribed_artists
          /\ final_result[j].match_score = <<filter_config.artist_boost, 10>>
          /\ final_result[k].user_id \notin filter_config.subscribed_artists
          /\ final_result[k].match_score = <<0, 1>>

(***************************************************************************)
(* Properties of the hard filters                                          *)
(***************************************************************************)
\* The batch with the mature flag of every work inverted
FlipMature(batch) == [k \in 1 .. Len(batch) |-> [batch[k] EXCEPT !.is_r18 = ~@]]

\* What the maturity mode does to the result of filter and to the answer of
\* check_illust, for the modes that keep mature works only and the modes
\* that drop them
MaturityEffect(only_mature, no_mature) ==
    LET mode_str == Lower(filter_config.r18_mode)
    IN  /\ filter_pc = "done" =>
              /\ mode_str \in only_mature =>
                    \A k \in 1 .. Len(final_result) : final_result[k].is_r18
              /\ mode_str \in no_mature =>
                    \A k \in 1 .. Len(final_result) : ~final_result[k].is_r18
              /\ mode_str \notin only_mature \cup no_mature =>
                    IdsOf(final_result)
                       = IdsOf(filter(push_history, filter_config, FlipMature(illusts),
                                      xp_profile))
        /\ check_result # NoCheck =>
              /\ (mode_str \in only_mature /\ check_result.accepted) =>
                    check_result.illust.is_r18
              /\ (mode_str \in no_mature /\ check_result.accepted) =>
                    ~check_result.illust.is_r18
              /\ mode_str \notin only_mature \cup no_mature =>
                    check_result.accepted
                       = check_illust(filter_config,
                                      [check_result.illust EXCEPT !.is_r18 = ~@])

\* C32: with r18_mode pure or r18_only only mature works survive filter and
\* check_illust, with safe or clean no mature work survives, and with every
\* other value the mature flag never causes a drop
MaturityTriState == MaturityEffect({"pure", "r18_only"}, {"safe", "clean"})

\* C32, amended: the lower-cased string of r18_mode decides; true, r18_only
\* and pure keep mature works only, safe, 18- and clean drop them, every
\* other value leaves the flag without effect
MaturityByModeString ==
    MaturityEffect({"true", "r18_only", "pure"}, {"safe", "18-", "clean"})

\* With r18_mode True a work that is not mature was dropped by filter and
\* refused by check_illust though it passes every other test, and a mature
\* work was returned
MaturityByModeStringWitness ==
    /\ filter_config.r18_mode = "True"
    /\ filter_pc = "done"
    /\ Len(final_result) >= 1
    /\ check_result # NoCheck
    /\ ~check_result.illust.is_r18
    /\ ~check_result.accepted
    /\ PassesHardFiltersAnyMode(filter_config, check_result.illust)
    /\ ~is_pushed(push_history, check_result.illust.id)
    /\ check_result.illust.id \notin ResultIds

\* C33: check_illust(c) holds exactly when c passes the age filter, the tag
\* exclusion, the AI exclusion and the maturity filter of filter: a work
\* filter returned is accepted, and an accepted work is returned unless it is
\* pushed, a work of the same id came first, or the artist cap or the daily
\* limit is exhausted; push history and profile do not enter check_illust
CheckIllustIsHardStages ==
    (filter_pc = "done" /\ check_result # NoCheck) =>
        LET c == check_result.illust
            returned == \E k \in 1 .. Len(final_result) :
                           \A f \in DOMAIN c : final_result[k][f] = c[f]
        IN  /\ returned => check_result.accepted
            /\ ( /\ check_result.accepted
                 /\ ~is_pushed(push_history, c.id)
                 /\ \A j \in 1 .. Len(illusts) : illusts[j].id = c.id => illusts[j] = c
                 /\ Len(final_result) < filter_config.daily_limit
                 /\ ArtistCount(final_result, c.user_id) < filter_config.max_per_artist )
               => returned

\* Under a profile, a pushed work was accepted by check_illust and is
\* missing from the result of filter, which returned the other work
CheckIllustIsHardStagesWitness ==
    /\ filter_pc = "done"
    /\ DOMAIN xp_profile # {}
    /\ check_result # NoCheck
    /\ check_result.accepted
    /\ is_pushed(push_history, check_result.illust.id)
    /\ check_result.illust.id \notin ResultIds
    /\ Len(final_result) >= 1

(***************************************************************************)
(* Properties of the works a cascade pushes                                *)
(***************************************************************************)
\* The related works that differ from the seed, are not in push_history,
\* pass check_illust and are not of a blocked artist
PassingRelated ==
    {k \in 1 .. Len(related_works) :
        /\ related_works[k].id # related_seed
        /\ push_history[related_works[k].id] = NoSource
        /\ check_illust(filter_config, related_works[k])
        /\ related_works[k].user_id \notin blocked_artist_ids}

RelatedScoreAt(k) == related_score(related_works[k], xp_profile, artist_scores)

\* The positions in related_works of the works handed to delivery
TopPositions ==
    {k \in 1 .. Len(related_works) :
        \E j \in 1 .. Len(related_top) : related_top[j] = related_works[k]}

CascadeOnlyForRecorded ==
    [][\A c \in DOMAIN cascades :
          (cascades[c].pc = "free" /\ cascades'[c].pc = "created")
              => is_pushed(push_history, cascades'[c].seed)]_vars

(***************************************************************************)
(* Properties of delivery                                                  *)
(***************************************************************************)
\* C36: under every interleaving of cycles and cascades no work is delivered
\* more than once to a channel.  A work that was delivered is not delivered
\* again by a later cascade or cycle: the depth and the producer of its
\* delivery stay what they were.
DeliveredOnce ==
    [][\A i \in IllustIds :
          real_depth[i] >= 0 => (real_depth'[i] = real_depth[i] /\ origin'[i] = origin[i])]_vars

FloodControlError(e) == e.type = "RetryAfter" \/ (e.type # "return" /\ e.flood_text)

RetryOutcome ==
    LET n == Len(invocations)
    IN  /\ n <= max_retries + 1
        /\ \A k \in 1 .. n - 1 : FloodControlError(invocations[k])
        /\ \A k \in 1 .. n :
              (invocations[k].type # "return" /\ ~FloodControlError(invocations[k]))
                  => (k = n /\ retry_result = [kind |-> "raised", of |-> invocations[k]])
        /\ retry_result.kind = "returned"
              => (n >= 1 /\ invocations[n].type = "return" /\ retry_result.of = invocations[n])
        /\ retry_result.kind = "raised"
              => (n >= 1 /\ invocations[n].type # "return" /\ retry_result.of = invocations[n])
        /\ retry_result.kind = "pending"
              => (n = attempt /\ \A k \in 1 .. n : invocations[k].type # "return")
        /\ n = max_retries + 1 => retry_result.kind # "pending"

\* C38: _retry_on_flood ends after at most max_retries + 1 calls of
\* coro_func: the first return is its result, every call but the last
\* raised a flood-control error, any other exception is raised to the
\* caller by the call it came from, and the last permitted call's outcome,
\* whatever it is, is the caller's
RetryOnFloodEnds == []RetryOutcome /\ <>(retry_result.kind # "pending")

RetryOnFloodEndsWitness ==
    /\ max_retries >= 2
    /\ Len(invocations) = max_retries + 1
    /\ retry_result.kind = "raised"
    /\ retry_result.of.type = "RetryAfter"

\* C39: after any sequence of _send_photo, _send_video and push_illusts the
\* message map holds at most TrimAbove + len(chat_ids) entries
MessageMapBounded == Len(message_illust_map) <= TrimAbove + Len(chat_ids)

====
